---- MODULE Spec2Model ----
(***************************************************************************)
(* productforge-backend: the indexed store, the agent registry, the result *)
(* store, the worker loop and the workflow orchestrator, as state machines *)
(* over one shared Redis keyspace.                                         *)
(*                                                                         *)
(* Conventions.  A Python Optional / a missing dict key is the empty tuple *)
(* <<>> and a present value v is <<v>>.  A Redis string-keyed namespace is *)
(* a function whose DOMAIN is the set of keys that exist.  A sorted set is *)
(* a function member -> score.  datetime.now()/time.time() read `clock'.   *)
(* An ISO timestamp string is a record (see IsoOf), uuid4() draws the next *)
(* unused natural.                                                         *)
(***************************************************************************)
EXTENDS Integers, Sequences, FiniteSets, TLC

\* ---------------------------------------------------------------- bounds
MaxClock == 2
MaxJobs == 4
NumReaders == 2
ConcJobs == 2
WorkerJobs == 2
DispatchJobs == 2
QueueJobs == 2
MaxTasks == 2
LegacyJobs == 2

\* ------------------------------------------------------ program constants
SnippetLen == 300
ListAgentsLimit == 200
ResultsWindow == 200

NoneV == <<>>
Some(v) == <<v>>

\* ------------------------------------------------------------------ state
VARIABLES
  clock,      \* wall clock read by datetime.now() / time.time()
  nextJob,    \* next unused uuid4 for a job id
  nextWf,     \* next unused uuid4 for a workflow id
  queues,     \* "queue" / "queue_high" / "queue_low": lists, head first
  agStore,    \* agent:<name>       -> agent record
  agIndex,    \* agents_index       : name -> score
  resStore,   \* result:<job_id>    -> JSON text of the result
  resIndex,   \* results_index      : job_id -> score
  wfStore,    \* workflow:<id>      -> workflow document
  wfIndex,    \* workflows_index    : workflow_id -> score
  rd,         \* the handler or worker iteration in flight on each process
  resp        \* what the last operation returned to its caller

vars == <<clock, nextJob, nextWf, queues, agStore, agIndex, resStore, resIndex,
          wfStore, wfIndex, rd, resp>>

\* --------------------------------------------------------------- helpers
Put(f, k, v) == [x \in (DOMAIN f) \cup {k} |-> IF x = k THEN v ELSE f[x]]
Del(f, k) == [x \in (DOMAIN f) \ {k} |-> f[x]]

\* datetime.isoformat(): the text of an instant; naive (no zone suffix).
IsoOf(t) == [kind |-> "iso", sec |-> t]

\* A timestamp string as callers can supply it: the ISO text of an instant, the
\* empty string, or text that datetime.fromisoformat rejects.
EmptyTs == [kind |-> "empty", sec |-> 0]
BadTs == [kind |-> "text", sec |-> 0]

\* core/redis_client.py _iso_to_ts: the instant of an ISO text, None when the
\* text does not parse.
IsoToTs(iso) == IF iso.kind = "iso" THEN Some(iso.sec) ELSE NoneV

\* Python `a or b' on an Optional[float]: None and 0.0 are both falsy.
PyOr(opt, dflt) == IF opt = NoneV \/ opt = Some(0) THEN dflt ELSE opt[1]

\* `_iso_to_ts(x) or _now_ts()': the score an index entry gets.
ScoreOf(iso, now) == PyOr(IsoToTs(iso), now)

\* ------------------------------------------------------- sorted-set reads
\* Redis orders a sorted set by score, members of equal score by member text.
\* Job and workflow ids are numbers here; agent names compare run by run.
IdAfter(a, b) == a > b

RECURSIVE NameAfter(_, _)
NameAfter(a, b) ==
  IF a = <<>> THEN FALSE
  ELSE IF b = <<>> THEN TRUE
  ELSE IF Head(a) = Head(b) THEN NameAfter(Tail(a), Tail(b))
  ELSE LET order == <<" ", "BOT", "Bot", "QA", "_", "analyzer", "assistant",
                      "bot", "debugger", "dev", "general", "qa">>
           pos(t) == CHOOSE i \in 1..Len(order) : order[i] = t
       IN pos(Head(a)) > pos(Head(b))

ZRevAll(idx, S, names) ==
  LET After(a, b) == IF names THEN NameAfter(a, b) ELSE IdAfter(a, b)
      before(a, b) == idx[a] > idx[b] \/ (idx[a] = idx[b] /\ After(a, b))
  IN [i \in 1..Cardinality(S) |->
        CHOOSE a \in S : Cardinality({b \in S \ {a} : before(b, a)}) = i - 1]

\* ZREVRANGE key start stop: both ends inclusive, a negative end counts from
\* the tail (-1 is the last element), an empty range is the empty list.
ZRevRangeBy(idx, start, stop, names) ==
  LET all == ZRevAll(idx, DOMAIN idx, names)
      n == Len(all)
      lo0 == IF start < 0 THEN n + start ELSE start
      hi0 == IF stop < 0 THEN n + stop ELSE stop
      lo == IF lo0 < 0 THEN 0 ELSE lo0
      hi == IF hi0 >= n THEN n - 1 ELSE hi0
  IN IF lo > hi \/ lo >= n THEN <<>> ELSE SubSeq(all, lo + 1, hi + 1)

ZRevRange(idx, start, stop) == ZRevRangeBy(idx, start, stop, FALSE)

\* Keep the values of the keys that exist, in order (`if raw: out.append').
RECURSIVE FetchExisting(_, _)
FetchExisting(store, ids) ==
  IF ids = <<>> THEN <<>>
  ELSE (IF Head(ids) \in DOMAIN store THEN <<store[Head(ids)]>> ELSE <<>>)
       \o FetchExisting(store, Tail(ids))

\* ------------------------------------------------------------ agent names
\* A name is the sequence of its maximal letter runs and separator characters.
GENERAL == <<"general", "_", "assistant">>
ANALYZER == <<"analyzer", "_", "bot">>
QABOT == <<"qa", "_", "bot">>
DEBUGGER == <<"debugger", "_", "bot">>

\* str.lower() on a letter run.
Lower(tok) == CASE tok = "QA" -> "qa"
                [] tok = "Bot" -> "bot"
                [] tok = "BOT" -> "bot"
                [] OTHER -> tok

\* main.py: agent.name.lower().replace(' ', '_')
NormalizeName(name) ==
  [i \in 1..Len(name) |-> IF name[i] = " " THEN "_" ELSE Lower(name[i])]

\* ------------------------------------------------------------ agent model
\* models/agent_models.py Agent
Agent(name, role) ==
  [name |-> name, role |-> role, task_count |-> 0,
   created_at |-> NoneV, last_assigned |-> NoneV]

\* services/agent_service.py create_default_agents: default_agents
DefaultAgents == << Agent(GENERAL, "Assistant"), Agent(ANALYZER, "Analyze"),
                    Agent(QABOT, "QA"), Agent(DEBUGGER, "Debug") >>

\* core/redis_client.py index_agent
IndexAgent(idx, name, created_at, now) == Put(idx, name, ScoreOf(created_at, now))

\* Variant: the caller's task_count kept.
CreateAgentInKeepCount(reg, agent, now) ==
  LET a == [agent EXCEPT !.created_at = Some(IsoOf(now))]
  IN [store |-> Put(reg.store, a.name, a),
      index |-> IndexAgent(reg.index, a.name, IsoOf(now), now),
      agent |-> a]

\* AgentService.create_agent on the registry reg = [store, index]: stamps
\* created_at, zeroes task_count, SETs agent:<name>, then updates the index.
CreateAgentIn(reg, agent, now) ==
  LET a == [agent EXCEPT !.created_at = Some(IsoOf(now)), !.task_count = 0]
  IN [store |-> Put(reg.store, a.name, a),
      index |-> IndexAgent(reg.index, a.name, IsoOf(now), now),
      agent |-> a]

\* Variant: every default created anew, no EXISTS test.
RECURSIVE CreateDefaultsAlways(_, _, _)
CreateDefaultsAlways(reg, i, now) ==
  IF i > Len(DefaultAgents) THEN reg
  ELSE CreateDefaultsAlways(
         LET c == CreateAgentIn(reg, DefaultAgents[i], now)
         IN [store |-> c.store, index |-> c.index,
             created |-> Append(reg.created, c.agent)],
         i + 1, now)

\* AgentService.create_default_agents: create each default whose key is absent.
RECURSIVE CreateDefaultsFrom(_, _, _)
CreateDefaultsFrom(reg, i, now) ==
  IF i > Len(DefaultAgents) THEN reg
  ELSE CreateDefaultsFrom(
         IF DefaultAgents[i].name \in DOMAIN reg.store THEN reg
         ELSE LET c == CreateAgentIn(reg, DefaultAgents[i], now)
              IN [store |-> c.store, index |-> c.index,
                  created |-> Append(reg.created, c.agent)],
         i + 1, now)

CreateDefaultAgents(store, index, now) ==
  CreateDefaultsFrom([store |-> store, index |-> index, created |-> <<>>], 1, now)

\* AgentService.list_agents: the index names, then the records that exist.
ListAgents(store, index) ==
  FetchExisting(store, ZRevRangeBy(index, 0, ListAgentsLimit - 1, TRUE))

\* POST /agents/ -> AgentService.create_agent
CreateAgent(agent) ==
  /\ LET c == CreateAgentIn([store |-> agStore, index |-> agIndex], agent, clock)
     IN /\ agStore' = c.store
        /\ agIndex' = c.index
        /\ resp' = [op |-> "create_agent", name |-> agent.name, error |-> NoneV,
                    request |-> agent, agent |-> Some(c.agent)]
  /\ UNCHANGED <<clock, nextJob, nextWf, queues, resStore, resIndex, wfStore,
                 wfIndex, rd>>

\* main.py POST /register_agent: keyed by the normalized name, refused with
\* HTTP 400 when the key exists, SET without an index entry.
RegisterAgent(name, role) ==
  /\ LET key == NormalizeName(name)
         agent_data == [Agent(name, role) EXCEPT !.created_at = Some(IsoOf(clock)),
                                                 !.task_count = 0]
     IN IF key \in DOMAIN agStore
        THEN /\ resp' = [op |-> "register_agent", name |-> name,
                         error |-> Some(400), agent |-> NoneV]
             /\ UNCHANGED agStore
        ELSE /\ agStore' = Put(agStore, key, agent_data)
             /\ resp' = [op |-> "register_agent", name |-> name, error |-> NoneV,
                         agent |-> Some(agent_data)]
  /\ UNCHANGED <<clock, nextJob, nextWf, queues, agIndex, resStore, resIndex,
                 wfStore, wfIndex, rd>>

\* AgentService.get_agent
GetAgentOf(store, name) == IF name \in DOMAIN store THEN Some(store[name]) ELSE NoneV

\* GET /agents/{name}
GetAgent(name) ==
  /\ resp' = [op |-> "get_agent", name |-> name, out |-> GetAgentOf(agStore, name)]
  /\ UNCHANGED <<clock, nextJob, nextWf, queues, agStore, agIndex, resStore,
                 resIndex, wfStore, wfIndex, rd>>

\* AgentService.create_default_agents called on its own.
EnsureDefaults ==
  /\ LET reg == CreateDefaultAgents(agStore, agIndex, clock)
     IN /\ agStore' = reg.store
        /\ agIndex' = reg.index
        /\ resp' = [op |-> "create_default_agents", created |-> reg.created]
  /\ UNCHANGED <<clock, nextJob, nextWf, queues, resStore, resIndex, wfStore,
                 wfIndex, rd>>

\* DELETE /agents/{name} -> AgentService.delete_agent: the key goes, the index
\* entry stays.
DeleteAgent(name) ==
  /\ agStore' = IF name \in DOMAIN agStore THEN Del(agStore, name) ELSE agStore
  /\ resp' = [op |-> "delete_agent", name |-> name,
              deleted |-> name \in DOMAIN agStore]
  /\ UNCHANGED <<clock, nextJob, nextWf, queues, agIndex, resStore, resIndex,
                 wfStore, wfIndex, rd>>

\* AgentService.increment_task_count
\* Variant: the assignment stamped, the count left alone.
IncrementInStampOnly(store, name, now) ==
  IF name \in DOMAIN store
  THEN [store EXCEPT ![name].last_assigned = Some(IsoOf(now))]
  ELSE store

\* Variant: a missing record is created with the first assignment counted.
IncrementInUpsert(store, name, now) ==
  IF name \in DOMAIN store
  THEN [store EXCEPT ![name].task_count = @ + 1,
                     ![name].last_assigned = Some(IsoOf(now))]
  ELSE Put(store, name, [Agent(name, "Assistant") EXCEPT !.task_count = 1])

IncrementIn(store, name, now) ==
  IF name \in DOMAIN store
  THEN [store EXCEPT ![name].task_count = @ + 1,
                     ![name].last_assigned = Some(IsoOf(now))]
  ELSE store

IncrementTaskCount(name) ==
  /\ name \in DOMAIN agStore => agStore[name].task_count < MaxTasks
  /\ agStore' = IncrementIn(agStore, name, clock)
  /\ resp' = [op |-> "none"]
  /\ UNCHANGED <<clock, nextJob, nextWf, queues, agIndex, resStore, resIndex,
                 wfStore, wfIndex, rd>>

\* GET /agents/: list, and when the list is empty create the defaults and
\* list again.
ListAgentsRoute ==
  /\ LET agents == ListAgents(agStore, agIndex)
         reg == IF agents = <<>> THEN CreateDefaultAgents(agStore, agIndex, clock)
                ELSE [store |-> agStore, index |-> agIndex]
     IN /\ agStore' = reg.store
        /\ agIndex' = reg.index
        /\ resp' = [op |-> "list_agents", out |-> ListAgents(reg.store, reg.index)]
  /\ UNCHANGED <<clock, nextJob, nextWf, queues, resStore, resIndex, wfStore,
                 wfIndex, rd>>

\* ------------------------------------------------------------- job texts
\* A job text is known by the keywords that occur in its lower-cased form.
JobTexts == { {"debug", "bug"}, {"review", "quality"} }

\* OrchestrationService._auto_assign_agent_sync: role_map, first row wins.
RoleMap == << [keywords |-> {"test", "qa", "quality", "validate", "verify"}, agent |-> QABOT],
              [keywords |-> {"debug", "fix", "error", "bug"}, agent |-> DEBUGGER],
              [keywords |-> {"analyze", "review", "audit", "inspect"}, agent |-> ANALYZER] >>

RECURSIVE AssignFrom(_, _)
AssignFrom(text, i) ==
  IF i > Len(RoleMap) THEN GENERAL
  ELSE IF \E k \in RoleMap[i].keywords : k \in text THEN RoleMap[i].agent
  ELSE AssignFrom(text, i + 1)

AutoAssignAgentSync(text) == AssignFrom(text, 1)

\* ----------------------------------------------------------------- queues
QueueNames == {"queue", "queue_high", "queue_low"}
LPush(qs, name, payload) ==
  Put(qs, name, <<payload>> \o (IF name \in DOMAIN qs THEN qs[name] ELSE <<>>))

\* A job descriptor; a key the writer does not set is NoneV.  created_at is
\* written by every producer and read by no consumer: it is left out.
Payload(job_id, workflow_id, job, agent_name, agent, role, step, parent, mode) ==
  [job_id |-> job_id, workflow_id |-> workflow_id, job |-> job,
   agent_name |-> agent_name, agent |-> agent, role |-> role, step |-> step,
   parent_job_id |-> parent, mode |-> mode]

\* --------------------------------------------------------------- dispatch
\* TaskRequest.priority: Optional[str], default "normal", any string passes.
Priorities == {"low", "normal", "high", "urgent"}

\* Variant: every job on the default list.
QueueOfDefault(priority) == "queue"

\* f"queue_{task.priority}" if task.priority != "normal" else "queue"
QueueOf(priority) == CASE priority = "normal" -> "queue"
                       [] priority = "high" -> "queue_high"
                       [] priority = "low" -> "queue_low"
                       [] priority = "urgent" -> "queue_urgent"

\* TaskService._auto_assign_agent: the if/elif rows, in order.
TaskRoleRows ==
  << [keywords |-> {"test", "qa", "quality", "validate", "verify"}, role |-> "QA"],
     [keywords |-> {"debug", "fix", "error", "bug"}, role |-> "Debug"],
     [keywords |-> {"analyze", "review", "audit", "inspect"}, role |-> "Analyze"] >>

\* next((a for a in agents if a.role == role), None), its name or the default.
FirstWithRole(agents, role) ==
  LET hits == {i \in 1..Len(agents) : agents[i].role = role}
  IN IF hits = {} THEN GENERAL
     ELSE agents[CHOOSE i \in hits : \A j \in hits : i <= j].name

RECURSIVE AssignByRows(_, _, _)
AssignByRows(agents, text, i) ==
  IF i > Len(TaskRoleRows) THEN GENERAL
  ELSE IF \E k \in TaskRoleRows[i].keywords : k \in text
  THEN FirstWithRole(agents, TaskRoleRows[i].role)
  ELSE AssignByRows(agents, text, i + 1)

\* Variant: the default answered without creating the defaults.
AutoAssignAgentNoBootstrap(store, index, text, now) ==
  LET agents == ListAgents(store, index)
  IN [name |-> IF agents = <<>> THEN GENERAL ELSE AssignByRows(agents, text, 1),
      store |-> store, index |-> index]

\* TaskService._auto_assign_agent: with no agent listed, create the defaults
\* and answer the general assistant.
AutoAssignAgent(store, index, text, now) ==
  LET agents == ListAgents(store, index)
  IN IF agents = <<>>
     THEN LET reg == CreateDefaultAgents(store, index, now)
          IN [name |-> GENERAL, store |-> reg.store, index |-> reg.index]
     ELSE [name |-> AssignByRows(agents, text, 1), store |-> store, index |-> index]

\* The descriptor queue_task pushes.
TaskPayload(job_id, job, agent_name, priority, requires_qa) ==
  Payload(Some(job_id), NoneV, job, Some(agent_name), NoneV, NoneV, NoneV, NoneV,
          "agent_dispatch")
    @@ [task |-> job, priority |-> priority, requires_qa |-> requires_qa]

\* POST /results/task -> TaskService.queue_task
QueueTask(job, agent_name, priority, requires_qa) ==
  /\ nextJob <= MaxJobs
  /\ LET job_id == nextJob
         a == IF agent_name = NoneV
              THEN AutoAssignAgent(agStore, agIndex, job, clock)
              ELSE [name |-> agent_name[1], store |-> agStore, index |-> agIndex]
         payload == TaskPayload(job_id, job, a.name, priority, requires_qa)
         queue_name == QueueOf(priority)
     IN /\ agStore' = IncrementIn(a.store, a.name, clock)
        /\ agIndex' = a.index
        /\ queues' = LPush(queues, queue_name, payload)
        /\ nextJob' = nextJob + 1
        /\ resp' = [op |-> "queue_task", status |-> "queued", job_id |-> job_id,
                    agent |-> a.name, queue |-> queue_name,
                    request |-> [job |-> job, agent_name |-> agent_name,
                                 priority |-> priority]]
  /\ UNCHANGED <<clock, nextWf, resStore, resIndex, wfStore, wfIndex, rd>>

\* ------------------------------------------------------ workflow creation
\* orchestrate_multi_agent._enqueue on st = [steps, queues, nextJob]: draws a
\* job id, pushes the descriptor on "queue", appends the step; job_id is the
\* id it returns.
Enqueue(st, wid, step, agent, jobText, parent) ==
  LET job_id == st.nextJob
  IN [steps |-> Append(st.steps,
                  [step |-> step, agent |-> agent, job_id |-> job_id,
                   status |-> "queued",
                   depends_on |-> IF parent # NoneV THEN parent ELSE NoneV,
                   output |-> NoneV, execution_time |-> NoneV,
                   confidence_score |-> NoneV]),
      queues |-> LPush(st.queues, "queue",
                   Payload(Some(job_id), Some(wid), jobText, Some(agent), NoneV,
                           NoneV, Some(step), parent, step)),
      nextJob |-> job_id + 1,
      job_id |-> job_id]

StepCount(requires_qa) == IF requires_qa THEN 4 ELSE 2

\* The feedback step chained to the specialist step instead of the QA step.
BuildStepsWrongParent(st0, wid, job, specialist, requires_qa) ==
  LET s1 == Enqueue(st0, wid, "admin_analysis", GENERAL, <<"plan", job>>, NoneV)
      s2 == Enqueue(s1, wid, "specialist_execution", specialist, <<"task", job>>,
                    Some(s1.job_id))
      s3 == Enqueue(s2, wid, "qa_validation", QABOT, <<"review", job>>,
                    Some(s2.job_id))
      s4 == Enqueue(s3, wid, "admin_feedback", GENERAL, <<"summary", job>>,
                    Some(s2.job_id))
  IN IF requires_qa THEN s4 ELSE s2

\* The step chain of orchestrate_multi_agent (lines 99-128).
BuildSteps(st0, wid, job, specialist, requires_qa) ==
  LET s1 == Enqueue(st0, wid, "admin_analysis", GENERAL, <<"plan", job>>, NoneV)
      s2 == Enqueue(s1, wid, "specialist_execution", specialist, <<"task", job>>,
                    Some(s1.job_id))
      s3 == Enqueue(s2, wid, "qa_validation", QABOT, <<"review", job>>,
                    Some(s2.job_id))
      s4 == Enqueue(s3, wid, "admin_feedback", GENERAL, <<"summary", job>>,
                    Some(s3.job_id))
  IN IF requires_qa THEN s4 ELSE s2

\* OrchestrationService.orchestrate_multi_agent
OrchestrateMultiAgent(job, requires_qa) ==
  /\ nextJob + StepCount(requires_qa) - 1 <= MaxJobs
  /\ LET wid == nextWf
         created_at == IsoOf(clock)
         reg == CreateDefaultAgents(agStore, agIndex, clock)
         specialist == AutoAssignAgentSync(job)
         st == BuildSteps([steps |-> <<>>, queues |-> queues, nextJob |-> nextJob],
                          wid, job, specialist, requires_qa)
         doc == [workflow_id |-> wid, original_task |-> job, steps |-> st.steps,
                 status |-> "running", qa_enabled |-> requires_qa,
                 created_at |-> created_at, completed_at |-> NoneV]
     IN /\ agStore' = reg.store
        /\ agIndex' = reg.index
        /\ queues' = st.queues
        /\ nextJob' = st.nextJob
        /\ nextWf' = nextWf + 1
        /\ wfStore' = Put(wfStore, wid, doc)
        /\ wfIndex' = Put(wfIndex, wid, created_at.sec)
        /\ resp' = [op |-> "orchestrate", status |-> "orchestrated",
                    workflow_id |-> wid, steps |-> st.steps,
                    qa_chain_enabled |-> requires_qa]
  /\ UNCHANGED <<clock, resStore, resIndex, rd>>

\* Variant: the descriptors of the earlier steps taken back.
EnqueuedBeforeRolledBack(st0, wid, job, specialist, requires_qa, k) ==
  [st0 EXCEPT !.nextJob = st0.nextJob + k - 1]

\* The step chain as far as it got when the k-th _enqueue raises: the first
\* k - 1 calls of lines 99-128 have pushed their descriptors.
EnqueuedBefore(st0, wid, job, specialist, requires_qa, k) ==
  LET s1 == Enqueue(st0, wid, "admin_analysis", GENERAL, <<"plan", job>>, NoneV)
      s2 == Enqueue(s1, wid, "specialist_execution", specialist, <<"task", job>>,
                    Some(s1.job_id))
      s3 == Enqueue(s2, wid, "qa_validation", QABOT, <<"review", job>>,
                    Some(s2.job_id))
  IN CASE k = 1 -> st0 [] k = 2 -> s1 [] k = 3 -> s2 [] k = 4 -> s3

\* orchestrate_multi_agent when the store refuses the LPUSH of step k: the
\* exception leaves the handler before line 131, so neither the SET of the
\* workflow nor the ZADD of the index is issued.
OrchestrateFailing(job, requires_qa, k) ==
  /\ k \in 1..StepCount(requires_qa)
  /\ nextJob + k - 1 <= MaxJobs
  /\ LET wid == nextWf
         reg == CreateDefaultAgents(agStore, agIndex, clock)
         specialist == AutoAssignAgentSync(job)
         st == EnqueuedBefore([steps |-> <<>>, queues |-> queues, nextJob |-> nextJob],
                              wid, job, specialist, requires_qa, k)
     IN /\ agStore' = reg.store
        /\ agIndex' = reg.index
        /\ queues' = st.queues
        /\ nextJob' = st.nextJob + 1
        /\ nextWf' = nextWf + 1
        /\ resp' = [op |-> "orchestrate", status |-> "error", workflow_id |-> wid,
                    failed_step |-> k, qa_chain_enabled |-> requires_qa]
  /\ UNCHANGED <<clock, resStore, resIndex, wfStore, wfIndex, rd>>

\* ---------------------------------------------------------------- results
\* A string value carries its text and its length; s[:300] + "..." is Cut.
Str(body, len) == [body |-> body, len |-> len, cut |-> FALSE]
Cut(s) == [body |-> s.body, len |-> SnippetLen + 3, cut |-> TRUE]

\* models/results_models.py EnhancedResult (defaults: status "completed",
\* timestamp now, every Optional None).
EnhancedResult(job_id, workflow_id, parent_job_id, agent, role, status, output, started_at, completed_at, execution_time, confidence_score, timestamp) ==
  [job_id |-> job_id, workflow_id |-> workflow_id, parent_job_id |-> parent_job_id,
   agent |-> agent, role |-> role, reviewed_by |-> NoneV, status |-> status,
   output |-> output, started_at |-> started_at, completed_at |-> completed_at,
   execution_time |-> execution_time, confidence_score |-> confidence_score,
   timestamp |-> timestamp, task |-> NoneV]

OptionalFields == {"workflow_id", "parent_job_id", "agent", "role", "reviewed_by",
                   "output", "started_at", "completed_at", "execution_time",
                   "confidence_score", "task"}
RequiredFields == {"job_id", "status", "timestamp"}

\* json.dumps of one value: None is null, anything else the value's text.
JsonOf(v) == IF v = NoneV THEN <<"null">> ELSE <<"value", v[1]>>
\* json.loads of one token.
PyOf(tok) == IF tok[1] = "null" THEN NoneV ELSE Some(tok[2])

\* json.dumps(model_dump()) / model_dump_json(): the JSON object of a result.
DumpResult(r) ==
  [f \in DOMAIN r |-> IF f \in OptionalFields THEN JsonOf(r[f]) ELSE <<"value", r[f]>>]

\* json.loads: the dict of a JSON object (dict.get semantics: NoneV when the
\* key is absent or null).
JsonGet(raw, f) == IF f \in DOMAIN raw THEN PyOf(raw[f]) ELSE NoneV

\* EnhancedResult(**json.loads(raw)): a key the JSON lacks takes the default.
ParseResult(raw, now) ==
  [f \in OptionalFields \cup RequiredFields |->
     IF f \in OptionalFields THEN JsonGet(raw, f)
     ELSE IF f \in DOMAIN raw THEN raw[f][2]
     ELSE IF f = "status" THEN "completed"
     ELSE IF f = "timestamp" THEN IsoOf(now)
     ELSE NoneV]

\* ---------------------------------------------------------- result store
\* core/redis_client.py store_result: SETEX result:<job_id>, then ZADD the
\* index with the score of the result's own timestamp.
StoreResult(st, job_id, result_dict, now) ==
  [store |-> Put(st.store, job_id, DumpResult(result_dict)),
   index |-> Put(st.index, job_id, ScoreOf(result_dict.timestamp, now))]

\* Variant: the write time stamped over every timestamp.
SavePayloadAlwaysStamp(result, now) == [result EXCEPT !.timestamp = IsoOf(now)]

\* ResultService.save_result: an empty timestamp is replaced by utcnow.
SavePayload(result, now) ==
  IF result.timestamp = EmptyTs THEN [result EXCEPT !.timestamp = IsoOf(now)]
  ELSE result

SaveResult(result) ==
  /\ LET payload == SavePayload(result, clock)
         st == StoreResult([store |-> resStore, index |-> resIndex],
                           result.job_id, payload, clock)
     IN /\ resStore' = st.store
        /\ resIndex' = st.index
        /\ resp' = [op |-> "save_result", arg |-> result, out |-> payload]
  /\ UNCHANGED <<clock, nextJob, nextWf, queues, agStore, agIndex, wfStore,
                 wfIndex, rd>>

\* core/redis_client.py get_result
RedisGetResult(store, job_id) ==
  IF job_id \in DOMAIN store THEN Some(store[job_id]) ELSE NoneV

\* ResultService.get_result
GetResultOf(store, job_id, now) ==
  LET data == RedisGetResult(store, job_id)
  IN IF data # NoneV THEN Some(ParseResult(data[1], now)) ELSE NoneV

\* GET /results/{job_id} -> ResultService.get_result
GetResult(job_id) ==
  /\ resp' = [op |-> "get_result", job_id |-> job_id,
              out |-> GetResultOf(resStore, job_id, clock)]
  /\ UNCHANGED <<clock, nextJob, nextWf, queues, agStore, agIndex, resStore,
                 resIndex, wfStore, wfIndex, rd>>

\* core/redis_client.py list_results: ZREVRANGE 0 limit-1, then the values of
\* the keys that exist.
RedisListResults(store, index, limit) ==
  FetchExisting(store, ZRevRange(index, 0, limit - 1))

\* ResultService.list_results
ListResultsOf(store, index, limit, now) ==
  LET raw == RedisListResults(store, index, limit)
  IN [i \in 1..Len(raw) |-> ParseResult(raw[i], now)]

\* GET /results/?limit=
ListResults(limit) ==
  /\ resp' = [op |-> "list_results", limit |-> limit,
              out |-> ListResultsOf(resStore, resIndex, limit, clock)]
  /\ UNCHANGED <<clock, nextJob, nextWf, queues, agStore, agIndex, resStore,
                 resIndex, wfStore, wfIndex, rd>>

\* ------------------------------------------------ results of one workflow
\* The sort key of list_results_by_workflow:
\* x.get("started_at") or x.get("timestamp", ""); None and "" are falsy.
SortKeyOf(raw) ==
  LET s == JsonGet(raw, "started_at")
  IN IF s # NoneV /\ s[1] # EmptyTs THEN s[1]
     ELSE IF "timestamp" \in DOMAIN raw THEN raw["timestamp"][2] ELSE EmptyTs

\* str < str on timestamp texts: "" first, ISO texts (digits) by instant,
\* other text (letters) last.
KeyRank(k) == CASE k.kind = "empty" -> 0 [] k.kind = "iso" -> 1 [] k.kind = "text" -> 2
KeyLess(a, b) == KeyRank(a) < KeyRank(b) \/ (a.kind = "iso" /\ b.kind = "iso" /\ a.sec < b.sec)

\* list.sort(key=...): ascending and stable.
SortedByKey(wf) ==
  LET before(i, j) == KeyLess(SortKeyOf(wf[i]), SortKeyOf(wf[j]))
                        \/ (~KeyLess(SortKeyOf(wf[j]), SortKeyOf(wf[i])) /\ i < j)
  IN [p \in 1..Len(wf) |->
        wf[CHOOSE i \in 1..Len(wf) :
             Cardinality({j \in 1..Len(wf) : before(j, i)}) = p - 1]]

\* Variant: every indexed result scanned, no window.
ListByWorkflowUnbounded(store, index, window, workflow_id) ==
  LET all_recent == RedisListResults(store, index, 0)
  IN SortedByKey(SelectSeq(all_recent,
                           LAMBDA r : JsonGet(r, "workflow_id") = Some(workflow_id)))

\* core/redis_client.py list_results_by_workflow with its window as a
\* parameter: list_results(window), filter on workflow_id, sort.
ListByWorkflowIn(store, index, window, workflow_id) ==
  LET all_recent == RedisListResults(store, index, window)
  IN SortedByKey(SelectSeq(all_recent,
                           LAMBDA r : JsonGet(r, "workflow_id") = Some(workflow_id)))

\* list_results_by_workflow: the window is 200.
ListResultsByWorkflow(store, index, workflow_id) ==
  ListByWorkflowIn(store, index, ResultsWindow, workflow_id)

\* GET /results/workflow/{workflow_id} -> ResultService.get_results_by_workflow
GetResultsByWorkflow(workflow_id) ==
  /\ LET raw == ListResultsByWorkflow(resStore, resIndex, workflow_id)
     IN resp' = [op |-> "results_by_workflow", workflow_id |-> workflow_id,
                 out |-> [i \in 1..Len(raw) |-> ParseResult(raw[i], clock)]]
  /\ UNCHANGED <<clock, nextJob, nextWf, queues, agStore, agIndex, resStore,
                 resIndex, wfStore, wfIndex, rd>>

\* ----------------------------------------------------------------- worker
\* What execute_ai_task can do: return the completion text or raise.
Outcomes == { [status |-> "completed", output |-> Str("completion", SnippetLen + 1),
               confidence |-> 95],
              [status |-> "error", output |-> Str("failed", 20), confidence |-> 0] }

\* str(time.time()): a job id no uuid4 equals (negative here).
TimeId(now) == 0 - now

\* Variant: an Admin result chains a QA review again.
HandleWorkflowAgain(qs, result) ==
  IF result.role = Some("Analyze") \/ result.role = Some("Admin")
  THEN LPush(qs, "queue",
         Payload(NoneV, result.workflow_id, <<"qa-review", result.agent>>, NoneV,
                 Some(QABOT), Some("QA"), NoneV, Some(result.job_id), "QA"))
  ELSE IF result.role = Some("QA")
  THEN LPush(qs, "queue",
         Payload(NoneV, result.workflow_id, <<"admin-summary", NoneV>>, NoneV,
                 Some(<<"admin", "_", "bot">>), Some("Admin"), NoneV,
                 Some(result.job_id), "Admin"))
  ELSE qs

\* worker.py handle_workflow: the follow-up job a result chains to.
HandleWorkflow(qs, result) ==
  IF result.role = Some("Analyze")
  THEN LPush(qs, "queue",
         Payload(NoneV, result.workflow_id, <<"qa-review", result.agent>>, NoneV,
                 Some(QABOT), Some("QA"), NoneV, Some(result.job_id), "QA"))
  ELSE IF result.role = Some("QA")
  THEN LPush(qs, "queue",
         Payload(NoneV, result.workflow_id, <<"admin-summary", NoneV>>, NoneV,
                 Some(<<"admin", "_", "bot">>), Some("Admin"), NoneV,
                 Some(result.job_id), "Admin"))
  ELSE qs

\* worker.py main, one iteration of the loop with a job on "queue": BRPOP the
\* tail, run the task, SETEX the result, chain the follow-up.
WorkerLoop(outcome) ==
  /\ queues["queue"] # <<>>
  /\ LET q == queues["queue"]
         job == q[Len(q)]
         popped == [queues EXCEPT !["queue"] = SubSeq(q, 1, Len(q) - 1)]
         job_id == IF job.job_id # NoneV THEN job.job_id[1] ELSE TimeId(clock)
         agent_name == IF job.agent # NoneV THEN job.agent
                       ELSE Some(<<"default", "_", "agent">>)
         role == IF job.role # NoneV THEN job.role ELSE Some("Analyze")
         result == EnhancedResult(job_id, job.workflow_id, NoneV, agent_name, role,
                     outcome.status, Some(outcome.output), Some(IsoOf(clock)),
                     Some(IsoOf(clock)), Some(0), Some(outcome.confidence),
                     IsoOf(clock))
     IN /\ resStore' = Put(resStore, job_id, DumpResult(result))
        /\ queues' = HandleWorkflow(popped, result)
        /\ resp' = [op |-> "worker", job_id |-> job_id, status |-> outcome.status]
  /\ UNCHANGED <<clock, nextJob, nextWf, agStore, agIndex, resIndex, wfStore,
                 wfIndex, rd>>

\* The TTL of result:<job_id> runs out (SETEX ... 3600): the key goes, the
\* index entry stays.
ExpireResult(job_id) ==
  /\ job_id \in DOMAIN resStore
  /\ resStore' = Del(resStore, job_id)
  /\ resp' = [op |-> "none"]
  /\ UNCHANGED <<clock, nextJob, nextWf, queues, agStore, agIndex, resIndex,
                 wfStore, wfIndex, rd>>

Tick ==
  /\ clock < MaxClock
  /\ clock' = clock + 1
  /\ resp' = [op |-> "none"]
  /\ UNCHANGED <<nextJob, nextWf, queues, agStore, agIndex, resStore, resIndex,
                 wfStore, wfIndex, rd>>

\* ---------------------------------------------------------- status reads
\* Variants of the step probe used to test the properties below.
\* The found branch forgets completed_count += 1.
ProbeStepNoCount(step, store) ==
  IF step.status = "completed"
  THEN [step |-> step, completed |-> 1, changed |-> FALSE]
  ELSE IF step.job_id \in DOMAIN store
  THEN [step |-> [step EXCEPT !.status = "completed"], completed |-> 0,
        changed |-> TRUE]
  ELSE IF step.status = "queued"
  THEN [step |-> [step EXCEPT !.status = "processing"], completed |-> 0,
        changed |-> TRUE]
  ELSE [step |-> step, completed |-> 0, changed |-> FALSE]

\* No `continue' for a completed step: a present result is copied again.
ProbeStepNoSkip(step, store) ==
  IF step.job_id \in DOMAIN store
  THEN [step |-> [step EXCEPT !.status = "completed"], completed |-> 1,
        changed |-> TRUE]
  ELSE IF step.status = "queued"
  THEN [step |-> [step EXCEPT !.status = "processing"], completed |-> 0,
        changed |-> TRUE]
  ELSE [step |-> step, completed |-> IF step.status = "completed" THEN 1 ELSE 0,
        changed |-> FALSE]

\* The status derived from the result's presence alone.
ProbeStepStateless(step, store) ==
  IF step.job_id \in DOMAIN store
  THEN [step |-> [step EXCEPT !.status = "completed"], completed |-> 1,
        changed |-> step.status # "completed"]
  ELSE [step |-> [step EXCEPT !.status = "processing"], completed |-> 0,
        changed |-> step.status # "processing"]

\* The relabel of a queued step not flagged as a change.
ProbeStepQuietRelabel(step, store) ==
  IF step.status = "completed"
  THEN [step |-> step, completed |-> 1, changed |-> FALSE]
  ELSE IF step.job_id \in DOMAIN store
  THEN [step |-> [step EXCEPT !.status = "completed"], completed |-> 1,
        changed |-> TRUE]
  ELSE IF step.status = "queued"
  THEN [step |-> [step EXCEPT !.status = "processing"], completed |-> 0,
        changed |-> FALSE]
  ELSE [step |-> step, completed |-> 0, changed |-> FALSE]

\* A processing step completed without looking for its result.
ProbeStepNoResult(step, store) ==
  IF step.status = "completed"
  THEN [step |-> step, completed |-> 1, changed |-> FALSE]
  ELSE IF step.job_id \in DOMAIN store \/ step.status = "processing"
  THEN [step |-> [step EXCEPT !.status = "completed"], completed |-> 1,
        changed |-> TRUE]
  ELSE [step |-> [step EXCEPT !.status = "processing"], completed |-> 0,
        changed |-> TRUE]

\* get_workflow_status, the body of the loop for one step (lines 166-184)
\* against the result store as it is when the step is probed.
ProbeStep(step, store) ==
  IF step.status = "completed"
  THEN [step |-> step, completed |-> 1, changed |-> FALSE]
  ELSE IF step.job_id \in DOMAIN store
  THEN LET res == store[step.job_id]
           out == JsonGet(res, "output")
           snippet == IF out # NoneV /\ out[1].len > SnippetLen
                      THEN Some(Cut(out[1])) ELSE out
       IN [step |-> [step EXCEPT !.status = "completed",
                                 !.output = Some(snippet),
                                 !.execution_time = Some(JsonGet(res, "execution_time")),
                                 !.confidence_score = Some(JsonGet(res, "confidence_score"))],
           completed |-> 1, changed |-> TRUE]
  ELSE IF step.status = "queued"
  THEN [step |-> [step EXCEPT !.status = "processing"], completed |-> 0,
        changed |-> TRUE]
  ELSE [step |-> step, completed |-> 0, changed |-> FALSE]

\* The completion test never marks the document.
FinalizeNoStatus(doc, completed_count, changed, now) ==
  [doc |-> doc, changed |-> changed]

\* Variant: the completion test without the guard on the stored status.
FinalizeEveryRead(doc, completed_count, changed, now) ==
  IF completed_count = Len(doc.steps)
  THEN [doc |-> [doc EXCEPT !.status = "completed",
                            !.completed_at = Some(IsoOf(now))],
        changed |-> TRUE]
  ELSE [doc |-> doc, changed |-> changed]

\* Lines 186-189: the workflow completes when every step counted.
Finalize(doc, completed_count, changed, now) ==
  IF completed_count = Len(doc.steps) /\ doc.status # "completed"
  THEN [doc |-> [doc EXCEPT !.status = "completed",
                            !.completed_at = Some(IsoOf(now))],
        changed |-> TRUE]
  ELSE [doc |-> doc, changed |-> changed]

\* The loop over the steps from step i on, st = [doc, completed, changed].
RECURSIVE ProbeFrom(_, _, _)
ProbeFrom(st, i, store) ==
  IF i > Len(st.doc.steps) THEN st
  ELSE LET p == ProbeStep(st.doc.steps[i], store)
       IN ProbeFrom([doc |-> [st.doc EXCEPT !.steps[i] = p.step],
                     completed |-> st.completed + p.completed,
                     changed |-> st.changed \/ p.changed], i + 1, store)

\* The whole of get_workflow_status on the stored document (lines 162-192).
DeriveStatus(doc, store, now) ==
  LET looped == ProbeFrom([doc |-> doc, completed |-> 0, changed |-> FALSE], 1, store)
  IN Finalize(looped.doc, looped.completed, looped.changed, now)

\* OrchestrationService.get_workflow_status, run to completion (the handler
\* has no await: within one server process nothing interleaves with it).
GetWorkflowStatus(wid) ==
  /\ wid \in 1..nextWf
  /\ IF wid \notin DOMAIN wfStore
     THEN /\ resp' = [op |-> "get_workflow_status", workflow_id |-> wid,
                      error |-> TRUE, wrote |-> FALSE, workflow |-> NoneV]
          /\ UNCHANGED wfStore
     ELSE LET d == DeriveStatus(wfStore[wid], resStore, clock)
          IN /\ wfStore' = IF d.changed THEN Put(wfStore, wid, d.doc) ELSE wfStore
             /\ resp' = [op |-> "get_workflow_status", workflow_id |-> wid,
                         error |-> FALSE, wrote |-> d.changed,
                         workflow |-> Some(d.doc)]
  /\ UNCHANGED <<clock, nextJob, nextWf, queues, agStore, agIndex, resStore,
                 resIndex, wfIndex, rd>>

\* get_workflow_status on another server instance, one store round trip per
\* step: the GET of the document, ...
IdleRead == [pc |-> "idle", wid |-> 0, doc |-> NoneV, snap |-> NoneV, i |-> 0,
             completed |-> 0, changed |-> FALSE]

StatusRead(p, wid) ==
  /\ rd[p].pc = "idle"
  /\ wid \in DOMAIN wfStore
  /\ rd' = [rd EXCEPT ![p] = [pc |-> "loop", wid |-> wid, doc |-> Some(wfStore[wid]),
                              snap |-> Some(wfStore[wid]), i |-> 1, completed |-> 0,
                              changed |-> FALSE]]
  /\ resp' = [op |-> "none"]
  /\ UNCHANGED <<clock, nextJob, nextWf, queues, agStore, agIndex, resStore,
                 resIndex, wfStore, wfIndex>>

\* ... the GET of result:<job_id> for the step the loop is at, ...
StatusProbe(p) ==
  /\ rd[p].pc = "loop"
  /\ rd[p].i <= Len(rd[p].doc[1].steps)
  /\ LET r == rd[p]
         pr == ProbeStep(r.doc[1].steps[r.i], resStore)
     IN rd' = [rd EXCEPT ![p] = [r EXCEPT !.doc = Some([r.doc[1] EXCEPT !.steps[r.i] = pr.step]),
                                          !.i = r.i + 1,
                                          !.completed = r.completed + pr.completed,
                                          !.changed = r.changed \/ pr.changed]]
  /\ resp' = [op |-> "none"]
  /\ UNCHANGED <<clock, nextJob, nextWf, queues, agStore, agIndex, resStore,
                 resIndex, wfStore, wfIndex>>

\* ... and, after the loop, the SET of the document if anything changed.
StatusFinish(p) ==
  /\ rd[p].pc = "loop"
  /\ rd[p].i > Len(rd[p].doc[1].steps)
  /\ LET r == rd[p]
         d == Finalize(r.doc[1], r.completed, r.changed, clock)
     IN /\ wfStore' = IF d.changed THEN Put(wfStore, r.wid, d.doc) ELSE wfStore
        /\ resp' = [op |-> "get_workflow_status", workflow_id |-> r.wid,
                    error |-> FALSE, wrote |-> d.changed, workflow |-> Some(d.doc)]
  /\ rd' = [rd EXCEPT ![p] = IdleRead]
  /\ UNCHANGED <<clock, nextJob, nextWf, queues, agStore, agIndex, resStore,
                 resIndex, wfIndex>>

\* OrchestrationService.list_workflows
ListWorkflows(limit) ==
  /\ LET ids == ZRevRange(wfIndex, 0, limit - 1)
         workflows == FetchExisting(wfStore, ids)
         running(w) == w.status = "running"
         completed(w) == w.status = "completed"
     IN resp' = [op |-> "list_workflows", limit |-> limit,
                 total_workflows |-> Len(workflows),
                 active |-> SelectSeq(workflows, running),
                 completed |-> SelectSeq(workflows, completed)]
  /\ UNCHANGED <<clock, nextJob, nextWf, queues, agStore, agIndex, resStore,
                 resIndex, wfStore, wfIndex, rd>>

\* ------------------------------------------------------- specifications
Readers == 1..NumReaders

\* The limit query parameter (an unvalidated int).
Limits == {0, 1, 2}

Init ==
  /\ clock = 1
  /\ nextJob = 1
  /\ nextWf = 1
  /\ queues = [q \in QueueNames |-> <<>>]
  /\ agStore = <<>>
  /\ agIndex = <<>>
  /\ resStore = <<>>
  /\ resIndex = <<>>
  /\ wfStore = <<>>
  /\ wfIndex = <<>>
  /\ rd = [p \in Readers |-> IdleRead]
  /\ resp = [op |-> "init"]

\* The result a producer stores for a workflow's job: a long completion for
\* an odd job id, a short one for an even job id, stamped at the epoch + 1.
StepResult(job_id) ==
  EnhancedResult(job_id, NoneV, NoneV, Some(GENERAL), Some("Assistant"), "completed",
                 Some(IF job_id % 2 = 1 THEN Str("completion", SnippetLen + 1)
                      ELSE Str("ok", 2)),
                 NoneV, NoneV, Some(0), Some(1), IsoOf(1))

\* One server process: every handler runs to completion.
Next ==
  \/ \E job \in JobTexts, qa \in BOOLEAN : OrchestrateMultiAgent(job, qa)
  \/ \E j \in 1..(nextJob - 1) : SaveResult(StepResult(j))
  \/ \E j \in DOMAIN resStore : ExpireResult(j)
  \/ \E w \in 1..nextWf : GetWorkflowStatus(w)
  \/ Tick

Spec == Init /\ [][Next]_vars

\* Several server processes: status reads interleave at their store round trips
\* (one workflow, within one tick of the clock).
NextConc ==
  \/ \E qa \in BOOLEAN :
       /\ nextJob + StepCount(qa) - 1 <= ConcJobs
       /\ OrchestrateMultiAgent({"debug", "bug"}, qa)
  \/ \E j \in 1..(nextJob - 1) : SaveResult(StepResult(j))
  \/ \E j \in DOMAIN resStore : ExpireResult(j)
  \/ \E p \in Readers, w \in DOMAIN wfStore : StatusRead(p, w)
  \/ \E p \in Readers : StatusProbe(p)
  \/ \E p \in Readers : StatusFinish(p)

SpecConc == Init /\ [][NextConc]_vars

\* The orchestrator feeding the worker loop (one workflow).
NextWorker ==
  \/ \E job \in JobTexts, qa \in BOOLEAN :
       /\ nextJob + StepCount(qa) - 1 <= WorkerJobs
       /\ OrchestrateMultiAgent(job, qa)
  \/ \E o \in Outcomes : WorkerLoop(o)
  \/ \E j \in DOMAIN resStore : ExpireResult(j)
  \/ \E limit \in Limits : ListWorkflows(limit)
  \/ Tick

SpecWorker == Init /\ [][NextWorker]_vars

\* The result service used on its own: callers choose job id and timestamp.
ResultIds == {1, 2}
Timestamps == {IsoOf(0), IsoOf(1), IsoOf(2), EmptyTs, BadTs}

ResultInput(job_id, timestamp) ==
  EnhancedResult(job_id, NoneV, NoneV, Some(QABOT), Some("QA"), "completed",
                 Some(Str("ok", 2)), NoneV, NoneV, Some(0), Some(1), timestamp)

NextResults ==
  \/ \E j \in ResultIds, ts \in Timestamps : SaveResult(ResultInput(j, ts))
  \/ \E j \in ResultIds : GetResult(j)
  \/ \E limit \in Limits : ListResults(limit)
  \/ \E j \in DOMAIN resStore : ExpireResult(j)
  \/ Tick

SpecResults == Init /\ [][NextResults]_vars

\* The agent registry used on its own, through both registration routes.
AgentNames == {QABOT, <<"QA", " ", "Bot">>}

\* What a caller can post: a fresh agent, or one carrying a count and a stamp.
AgentInputs ==
  { Agent(n, "QA") : n \in AgentNames } \cup
  { [Agent(n, "QA") EXCEPT !.task_count = 5, !.created_at = Some(IsoOf(0))] :
      n \in AgentNames }

NextAgents ==
  \/ \E a \in AgentInputs : CreateAgent(a)
  \/ \E n \in AgentNames : RegisterAgent(n, "QA")
  \/ \E n \in AgentNames : DeleteAgent(n)
  \/ \E n \in AgentNames : IncrementTaskCount(n)
  \/ \E n \in AgentNames : GetAgent(n)
  \/ EnsureDefaults
  \/ ListAgentsRoute
  \/ Tick

SpecAgents == Init /\ [][NextAgents]_vars

\* The dispatcher of the refactored application with its agent registry.
DEVBOT == <<"dev", "_", "bot">>
DispatchAgents == { Agent(QABOT, "QA"), Agent(<<"QA", " ", "Bot">>, "QA"),
                    Agent(DEVBOT, "Developer"), Agent(DEBUGGER, "Debug") }
DispatchTexts == { {"debug", "bug"}, {"test", "debug", "bug"}, {"code"}, {"review"} }

\* Auto-assignment: jobs of normal priority over a registry that grows.
NextDispatch ==
  \/ \E a \in DispatchAgents : a.name \notin DOMAIN agStore /\ CreateAgent(a)
  \/ \E job \in DispatchTexts :
       /\ nextJob <= DispatchJobs
       /\ QueueTask(job, NoneV, "normal", FALSE)
  \/ Tick

SpecDispatch == Init /\ [][NextDispatch]_vars

\* Priorities: one job text, explicit and automatic agents, every priority.
NextQueue ==
  \/ CreateAgent(Agent(QABOT, "QA"))
  \/ DeleteAgent(QABOT)
  \/ \E an \in {NoneV, Some(QABOT)}, p \in Priorities :
       /\ nextJob <= QueueJobs
       /\ QueueTask({"debug", "bug"}, an, p, FALSE)
  \/ Tick

SpecQueue == Init /\ [][NextQueue]_vars

\* ------------------------------------------------------ legacy dispatch
\* main.py auto_assign_agent: the if/elif rows, in order.
LegacyRoleRows ==
  << [keywords |-> {"test", "qa", "quality", "validate", "verify"}, role |-> "QA"],
     [keywords |-> {"debug", "fix", "error", "bug"}, role |-> "Debugger"],
     [keywords |-> {"analyze", "review", "audit", "inspect"}, role |-> "Analyzer"],
     [keywords |-> {"code", "develop", "implement", "create"}, role |-> "Developer"] >>

\* main.py create_default_agents: SET each default whose key is absent, with
\* created_at and task_count 0; no index entry.
LegacyCreateDefaults(store, now) ==
  LET defaults == {DefaultAgents[i] : i \in 1..Len(DefaultAgents)}
  IN [n \in DOMAIN store \cup {d.name : d \in defaults} |->
        IF n \in DOMAIN store THEN store[n]
        ELSE LET d == CHOOSE d \in defaults : d.name = n
             IN [d EXCEPT !.created_at = Some(IsoOf(now))]]

\* main.py auto_assign_agent over the records SCAN returns: the names the
\* first matching row can answer. SCAN's order is unspecified, so with
\* several agents of the role any of them may come first.
LegacyAssignNames(store, text) ==
  LET hits == {i \in 1..Len(LegacyRoleRows) : LegacyRoleRows[i].keywords \cap text # {}}
  IN IF hits = {} THEN {GENERAL}
     ELSE LET first == CHOOSE i \in hits : \A j \in hits : i <= j
              names == {store[k].name : k \in {x \in DOMAIN store :
                                                 store[x].role = LegacyRoleRows[first].role}}
          IN IF names = {} THEN {GENERAL} ELSE names

\* The descriptor POST /task pushes.
LegacyTaskPayload(job_id, job, agent_name, priority, requires_qa) ==
  Payload(Some(job_id), NoneV, job, Some(agent_name), NoneV, NoneV, NoneV, NoneV,
          "agent_dispatch")
    @@ [priority |-> priority, requires_qa |-> requires_qa]

\* main.py POST /task: resolve the agent, 404 when its key is absent, count
\* the task on the record, push the descriptor.
LegacyCreateTask(job, agent_name, priority, requires_qa) ==
  /\ nextJob <= MaxJobs
  /\ LET job_id == nextJob
         store == IF agent_name = NoneV /\ agStore = <<>>
                  THEN LegacyCreateDefaults(agStore, clock) ELSE agStore
         names == IF agent_name # NoneV THEN {agent_name[1]}
                  ELSE IF agStore = <<>> THEN {GENERAL}
                  ELSE LegacyAssignNames(agStore, job)
     IN \E name \in names :
          LET agent_key == NormalizeName(name)
          IN /\ nextJob' = nextJob + 1
             /\ IF agent_key \notin DOMAIN store
                THEN /\ agStore' = store
                     /\ UNCHANGED queues
                     /\ resp' = [op |-> "create_task", status |-> "error",
                                 error |-> Some(404), job_id |-> job_id,
                                 agent |-> name,
                                 request |-> [job |-> job, agent_name |-> agent_name,
                                              priority |-> priority]]
                ELSE /\ agStore' = IncrementIn(store, agent_key, clock)
                     /\ queues' = LPush(queues, QueueOf(priority),
                                        LegacyTaskPayload(job_id, job, name, priority,
                                                          requires_qa))
                     /\ resp' = [op |-> "create_task", status |-> "queued",
                                 error |-> NoneV, job_id |-> job_id, agent |-> name,
                                 request |-> [job |-> job, agent_name |-> agent_name,
                                              priority |-> priority]]
  /\ UNCHANGED <<clock, nextWf, agIndex, resStore, resIndex, wfStore, wfIndex, rd>>

\* main.py dispatch_task: keywords, the role a mode asks for (a mode that is
\* not a key stands for itself).
DispatchModes == {"debug", "security"}
TargetRole(mode) == CASE mode = "analyze" -> "Analyze"
                      [] mode = "review" -> "QA"
                      [] mode = "qa" -> "QA"
                      [] mode = "debug" -> "Debug"
                      [] mode = "fix" -> "Debug"
                      [] mode = "security" -> "Security"
                      [] OTHER -> mode

\* str.lower() on a role.
LowerRole(role) == CASE role = "Analyze" -> "analyze"
                     [] role = "QA" -> "qa"
                     [] role = "Debug" -> "debug"
                     [] role = "Security" -> "security"
                     [] role = "Assistant" -> "assistant"
                     [] role = "Developer" -> "developer"
                     [] OTHER -> role

\* next((a for a in agents if a["role"].lower() == target_role.lower()),
\* agents[0]) over the records SCAN returns, in SCAN's unspecified order.
LegacyTargets(store, mode) ==
  LET hits == {k \in DOMAIN store :
                 LowerRole(store[k].role) = LowerRole(TargetRole(mode))}
  IN IF hits # {} THEN hits ELSE DOMAIN store

\* Variant: the descriptor pushed twice.
LegacyEnqueueTwice(qs, job) == LPush(LPush(qs, "queue", job), "queue", job)

\* r.lpush("queue", json.dumps(job))
LegacyEnqueue(qs, job) == LPush(qs, "queue", job)

\* main.py POST /dispatch_task -> dispatch_task: HTTP 400 without agents,
\* else the job, annotated with its target, pushed on "queue".
LegacyDispatchTask(mode) ==
  /\ nextJob <= MaxJobs
  /\ nextJob' = nextJob + 1
  /\ IF agStore = <<>>
     THEN /\ resp' = [op |-> "dispatch_task", status |-> "error",
                      error |-> Some(400), job_id |-> nextJob, mode |-> mode,
                      dispatched_to |-> NoneV, workflow_id |-> NoneV]
          /\ UNCHANGED <<queues, nextWf>>
     ELSE \E k \in LegacyTargets(agStore, mode) :
            LET target == agStore[k]
                job == Payload(Some(nextJob), Some(nextWf), {}, NoneV, NoneV, NoneV,
                               NoneV, NoneV, mode)
                         @@ [dispatched_to |-> target.name,
                             assigned_role |-> target.role,
                             started_at |-> IsoOf(clock)]
            IN /\ queues' = LegacyEnqueue(queues, job)
               /\ nextWf' = nextWf + 1
               /\ resp' = [op |-> "dispatch_task", status |-> "queued",
                           error |-> NoneV, job_id |-> nextJob, mode |-> mode,
                           dispatched_to |-> Some(target.name),
                           workflow_id |-> Some(nextWf)]
  /\ UNCHANGED <<clock, agStore, agIndex, resStore, resIndex, wfStore, wfIndex, rd>>

\* The legacy application: registration and POST /task.
LegacyAgents == { Agent(DEBUGGER, "Debug"), Agent(<<"QA", " ", "Bot">>, "QA"),
                  Agent(DEVBOT, "Developer") }
LegacyTexts == { {"debug", "bug"}, {"test", "debug", "bug"}, {"code"} }

NextLegacy ==
  \/ \E a \in LegacyAgents : RegisterAgent(a.name, a.role)
  \/ \E job \in LegacyTexts, an \in {NoneV, Some(DEVBOT)} :
       /\ nextJob <= LegacyJobs
       /\ LegacyCreateTask(job, an, "normal", FALSE)
  \/ \E mode \in DispatchModes :
       /\ nextJob <= LegacyJobs
       /\ LegacyDispatchTask(mode)
  \/ Tick

SpecLegacy == Init /\ [][NextLegacy]_vars

\* ------------------------------------------- dispatch, one store call a step
\* queue_task on server instance p, one store round trip per step; rd[p]
\* holds the handler's locals between the calls.
\* Variant: the count raised by two.
IncrementedTwice(agent, now) ==
  [agent EXCEPT !.task_count = @ + 2, !.last_assigned = Some(IsoOf(now))]

\* increment_task_count: agent.task_count += 1; agent.last_assigned = now
IncrementedAgent(agent, now) ==
  [agent EXCEPT !.task_count = @ + 1, !.last_assigned = Some(IsoOf(now))]

\* queue_task up to the GET inside increment_task_count (get_agent).
DispatchBegin(p, job, agent_name, priority, requires_qa) ==
  /\ rd[p].pc = "idle"
  /\ nextJob <= MaxJobs
  /\ LET a == IF agent_name = NoneV
              THEN AutoAssignAgent(agStore, agIndex, job, clock)
              ELSE [name |-> agent_name[1], store |-> agStore, index |-> agIndex]
     IN /\ agStore' = a.store
        /\ agIndex' = a.index
        /\ rd' = [rd EXCEPT ![p] =
                    [pc |-> "increment", job_id |-> nextJob, job |-> job,
                     name |-> a.name, priority |-> priority,
                     requires_qa |-> requires_qa, agent_name |-> agent_name,
                     agent |-> GetAgentOf(a.store, a.name)]]
  /\ nextJob' = nextJob + 1
  /\ resp' = [op |-> "none"]
  /\ UNCHANGED <<clock, nextWf, queues, resStore, resIndex, wfStore, wfIndex>>

\* increment_task_count after the GET: `if agent:' then the SET of the
\* record that was read, with its count raised.
DispatchSet(p) ==
  /\ rd[p].pc = "increment"
  /\ agStore' = IF rd[p].agent = NoneV THEN agStore
                ELSE Put(agStore, rd[p].name, IncrementedAgent(rd[p].agent[1], clock))
  /\ rd' = [rd EXCEPT ![p].pc = "push"]
  /\ resp' = [op |-> "none"]
  /\ UNCHANGED <<clock, nextJob, nextWf, queues, agIndex, resStore, resIndex,
                 wfStore, wfIndex>>

\* queue_task's LPUSH and its response.
DispatchPush(p) ==
  /\ rd[p].pc = "push"
  /\ LET r == rd[p]
         queue_name == QueueOf(r.priority)
     IN /\ queues' = LPush(queues, queue_name,
                           TaskPayload(r.job_id, r.job, r.name, r.priority,
                                       r.requires_qa))
        /\ resp' = [op |-> "queue_task", status |-> "queued", job_id |-> r.job_id,
                    agent |-> r.name, queue |-> queue_name,
                    request |-> [job |-> r.job, agent_name |-> r.agent_name,
                                 priority |-> r.priority]]
  /\ rd' = [rd EXCEPT ![p] = IdleRead]
  /\ UNCHANGED <<clock, nextJob, nextWf, agStore, agIndex, resStore, resIndex,
                 wfStore, wfIndex>>

\* Several server instances dispatching to one registered agent.
NextIncrement ==
  \/ QABOT \notin DOMAIN agStore /\ CreateAgent(Agent(QABOT, "QA"))
  \/ \E p \in Readers, pr \in {"normal", "high"} :
       /\ QABOT \in DOMAIN agStore
       /\ nextJob <= ConcJobs
       /\ DispatchBegin(p, {"test"}, Some(QABOT), pr, FALSE)
  \/ \E p \in Readers : DispatchSet(p)
  \/ \E p \in Readers : DispatchPush(p)
  \/ Tick

SpecIncrement == Init /\ [][NextIncrement]_vars

\* Dispatches on several instances while the agent is deleted and registered.
NextDelete ==
  \/ CreateAgent(Agent(QABOT, "QA"))
  \/ DeleteAgent(QABOT)
  \/ GetAgent(QABOT)
  \/ \E p \in Readers :
       /\ nextJob <= ConcJobs
       /\ DispatchBegin(p, {"test"}, Some(QABOT), "normal", FALSE)
  \/ \E p \in Readers : DispatchSet(p)
  \/ \E p \in Readers : DispatchPush(p)

SpecDelete == Init /\ [][NextDelete]_vars

\* Workflow creation against a store that may refuse a push.
NextCreate ==
  \/ \E job \in JobTexts, qa \in BOOLEAN :
       /\ nextJob + StepCount(qa) - 1 <= MaxJobs
       /\ OrchestrateMultiAgent(job, qa)
  \/ \E qa \in BOOLEAN, k \in 1..4 : OrchestrateFailing({"debug", "bug"}, qa, k)
  \/ Tick

SpecCreate == Init /\ [][NextCreate]_vars

\* Results of two workflows, saved, expired and listed by workflow.
WindowIds == {1, 2, 3}
WindowWorkflows == {1, 2}
WindowResult(job_id, workflow_id, started_at, timestamp) ==
  EnhancedResult(job_id, Some(workflow_id), NoneV, Some(QABOT), Some("QA"),
                 "completed", Some(Str("ok", 2)), started_at, NoneV, Some(0),
                 Some(1), timestamp)

NextWindow ==
  \/ \E j \in WindowIds, w \in WindowWorkflows, s \in {NoneV, Some(IsoOf(1))},
        ts \in {IsoOf(1), IsoOf(2)} : SaveResult(WindowResult(j, w, s, ts))
  \/ \E j \in DOMAIN resStore : ExpireResult(j)
  \/ \E w \in WindowWorkflows : GetResultsByWorkflow(w)

SpecWindow == Init /\ [][NextWindow]_vars

\* ------------------------------------------- worker, one store call a step
\* Variant: the head taken (LPOP).
PopHead(q) == [job |-> q[1], rest |-> SubSeq(q, 2, Len(q))]

\* Variant: the job handed out and left on the list.
PopTailKeep(q) == [job |-> q[Len(q)], rest |-> q]

\* BRPOP on a list that holds a job: the tail element leaves the list.
PopTail(q) == [job |-> q[Len(q)], rest |-> SubSeq(q, 1, Len(q) - 1)]

\* Variant: no record written.
WorkerStoreNothing(store, job_id, result) == store

\* r.setex(f"result:{job_id}", 3600, result.model_dump_json())
WorkerStoreIn(store, job_id, result) == Put(store, job_id, DumpResult(result))

\* worker.py main on worker process p: r.brpop("queue") returned a job.
WorkerPop(p) ==
  /\ rd[p].pc = "idle"
  /\ queues["queue"] # <<>>
  /\ LET popped == PopTail(queues["queue"])
     IN /\ queues' = [queues EXCEPT !["queue"] = popped.rest]
        /\ rd' = [rd EXCEPT ![p] = [pc |-> "work", job |-> popped.job]]
  /\ resp' = [op |-> "none"]
  /\ UNCHANGED <<clock, nextJob, nextWf, agStore, agIndex, resStore, resIndex,
                 wfStore, wfIndex>>

\* ... execute_ai_task returned or raised, and the result is SETEX'd.
WorkerStore(p, outcome) ==
  /\ rd[p].pc = "work"
  /\ LET job == rd[p].job
         job_id == IF job.job_id # NoneV THEN job.job_id[1] ELSE TimeId(clock)
         agent_name == IF job.agent # NoneV THEN job.agent
                       ELSE Some(<<"default", "_", "agent">>)
         role == IF job.role # NoneV THEN job.role ELSE Some("Analyze")
         result == EnhancedResult(job_id, job.workflow_id, NoneV, agent_name, role,
                     outcome.status, Some(outcome.output), Some(IsoOf(clock)),
                     Some(IsoOf(clock)), Some(0), Some(outcome.confidence),
                     IsoOf(clock))
     IN /\ resStore' = WorkerStoreIn(resStore, job_id, result)
        /\ rd' = [rd EXCEPT ![p] = [pc |-> "chain", job |-> job, result |-> result]]
        /\ resp' = [op |-> "worker", job_id |-> job_id, status |-> outcome.status]
  /\ UNCHANGED <<clock, nextJob, nextWf, queues, agStore, agIndex, resIndex,
                 wfStore, wfIndex>>

\* ... handle_workflow pushes the follow-up, and the loop starts over.
WorkerChain(p) ==
  /\ rd[p].pc = "chain"
  /\ queues' = HandleWorkflow(queues, rd[p].result)
  /\ rd' = [rd EXCEPT ![p] = IdleRead]
  /\ resp' = [op |-> "none"]
  /\ UNCHANGED <<clock, nextJob, nextWf, agStore, agIndex, resStore, resIndex,
                 wfStore, wfIndex>>

\* The worker process dies with a job in hand, before the SETEX; a new
\* process starts with the loop at its top. Nothing re-queues the job.
WorkerCrash(p) ==
  /\ rd[p].pc = "work"
  /\ rd' = [rd EXCEPT ![p] = IdleRead]
  /\ resp' = [op |-> "crash", job |-> rd[p].job]
  /\ UNCHANGED <<clock, nextJob, nextWf, queues, agStore, agIndex, resStore,
                 resIndex, wfStore, wfIndex>>

\* Dispatcher instances and worker processes on one store.
NextPool ==
  \/ \E p \in Readers :
       /\ nextJob <= ConcJobs
       /\ DispatchBegin(p, {"test"}, Some(QABOT), "normal", FALSE)
  \/ \E p \in Readers : DispatchSet(p)
  \/ \E p \in Readers : DispatchPush(p)
  \/ \E p \in Readers : WorkerPop(p)
  \/ \E p \in Readers, o \in Outcomes : WorkerStore(p, o)
  \/ \E p \in Readers : WorkerChain(p)
  \/ \E p \in Readers : WorkerCrash(p)

SpecPool == Init /\ [][NextPool]_vars

\* ------------------------------------------- the worker that keeps running
\* The dispatcher feeding a worker whose loop (worker.py main, while True)
\* never stops: an iteration that finds a job on "queue" is eventually taken.
FairJobs == 2

NextFair ==
  \/ \E p \in {"low", "normal", "high"} :
       /\ nextJob <= FairJobs
       /\ QueueTask({"debug", "bug"}, Some(QABOT), p, FALSE)
  \/ \E o \in Outcomes : WorkerLoop(o)
  \/ Tick

FairWorker == WF_vars(\E o \in Outcomes : WorkerLoop(o))

SpecFair == Init /\ [][NextFair]_vars /\ FairWorker

\* ============================================================ properties
StepsOf(w) == wfStore[w].steps
AllResultsPresent(w) ==
  \A i \in 1..Len(StepsOf(w)) : StepsOf(w)[i].job_id \in DOMAIN resStore
AllStepsCompleted(doc) ==
  \A i \in 1..Len(doc.steps) : doc.steps[i].status = "completed"
StatusReturned(w) ==
  resp.op = "get_workflow_status" /\ resp.workflow_id = w /\ ~resp.error

\* C1: when every step of a workflow has its result record in the result
\* store, one get_workflow_status call returns the workflow with status
\* completed and a completed_at, and that document is the stored one.
C1_StatusReadCompletes ==
  \A w \in DOMAIN wfStore :
    (StatusReturned(w) /\ AllResultsPresent(w))
      => /\ wfStore[w].status = "completed"
         /\ wfStore[w].completed_at # NoneV
         /\ resp.workflow = Some(wfStore[w])

\* The read that made the transition: it wrote, and the stored document is
\* completed with every result still present.
C1_Witness ==
  \E w \in DOMAIN wfStore :
    /\ StatusReturned(w) /\ AllResultsPresent(w) /\ resp.wrote
    /\ wfStore[w].status = "completed" /\ Len(StepsOf(w)) = 4

Rank(status) == CASE status = "queued" -> 0
                  [] status = "processing" -> 1
                  [] status = "completed" -> 2

StepsForward ==
  \A w \in DOMAIN wfStore :
    \A i \in 1..Len(wfStore[w].steps) :
      Rank(wfStore'[w].steps[i].status) >= Rank(wfStore[w].steps[i].status)

\* C2 as stated: no write ever stores a step with an earlier status than the
\* stored one, whatever the interleaving of status reads, result writes and
\* expiries.
C2_StepsNeverRegress == [][StepsForward]_vars

\* A status read finishing on a document that another write replaced since
\* the read fetched it.
StaleFinish ==
  \E p \in Readers :
    /\ rd[p].pc = "loop"
    /\ rd[p].i > Len(rd[p].doc[1].steps)
    /\ rd[p].snap # Some(wfStore[rd[p].wid])
    /\ StatusFinish(p)

\* C2 amended: a write moves no step backward unless it is the write of a
\* status read whose document was replaced by another write in between.
C2_ForwardUnlessStale == [][StaleFinish \/ StepsForward]_vars

\* A status read wrote a completed step while another read was in flight.
C2_Witness ==
  \E w \in DOMAIN wfStore :
    /\ StatusReturned(w) /\ resp.wrote
    /\ \E i \in 1..Len(StepsOf(w)) : StepsOf(w)[i].status = "completed"
    /\ \E q \in Readers : rd[q].pc = "loop" /\ rd[q].wid = w

\* C3: once the stored document has status completed no step of the system
\* changes it, and a get_workflow_status call on it writes nothing and
\* returns it as stored, also when its results have expired.
C3_CompletedImmutable ==
  [][\A w \in DOMAIN wfStore :
       wfStore[w].status = "completed"
         => /\ wfStore'[w] = wfStore[w]
            /\ (resp'.op = "get_workflow_status" /\ resp'.workflow_id = w)
                 => (~resp'.wrote /\ resp'.workflow = Some(wfStore[w]))]_vars

\* A status read of a completed workflow one of whose results has expired.
C3_Witness ==
  \E w \in DOMAIN wfStore :
    /\ StatusReturned(w) /\ ~resp.wrote
    /\ wfStore[w].status = "completed"
    /\ \E i \in 1..Len(StepsOf(w)) : StepsOf(w)[i].job_id \notin DOMAIN resStore

\* C4: a stored workflow document has status completed exactly when every
\* step in it has status completed, and status running otherwise.
C4_StatusIffAllSteps ==
  \A w \in DOMAIN wfStore :
    /\ wfStore[w].status \in {"running", "completed"}
    /\ wfStore[w].status = "completed" <=> AllStepsCompleted(wfStore[w])

\* A stored document written as completed while another read is in flight.
C4_Witness ==
  \E w \in DOMAIN wfStore :
    /\ wfStore[w].status = "completed" /\ AllStepsCompleted(wfStore[w])
    /\ \E q \in Readers : rd[q].pc = "loop" /\ rd[q].wid = w

StepNames == <<"admin_analysis", "specialist_execution", "qa_validation",
               "admin_feedback">>

\* C5: the workflow orchestrate returns and stores has 2 steps without QA
\* and 4 with QA, named in order, all queued, each step after the first
\* depending on the job id of the step before it.
C5_CreatedSteps ==
  resp.op = "orchestrate"
    => LET st == resp.steps
       IN /\ Len(st) = IF resp.qa_chain_enabled THEN 4 ELSE 2
          /\ \A i \in 1..Len(st) : st[i].step = StepNames[i] /\ st[i].status = "queued"
          /\ st[1].depends_on = NoneV
          /\ \A i \in 2..Len(st) : st[i].depends_on = Some(st[i - 1].job_id)
          /\ wfStore[resp.workflow_id].steps = st

C5_Witness ==
  /\ resp.op = "orchestrate" /\ resp.qa_chain_enabled
  /\ Len(resp.steps) = 4
  /\ resp.steps[4].depends_on = Some(resp.steps[3].job_id)

\* C6: in every reachable state a primary record that exists (agent:<name>,
\* result:<job_id>, workflow:<id>) has its id in the entity's time index,
\* because every writer indexes what it writes.
C6_PrimaryIsIndexed ==
  /\ DOMAIN agStore \subseteq DOMAIN agIndex
  /\ DOMAIN resStore \subseteq DOMAIN resIndex
  /\ DOMAIN wfStore \subseteq DOMAIN wfIndex

StoredTimestamp(job_id) == ParseResult(resStore[job_id], clock).timestamp
PosIn(list, job_id) == CHOOSE i \in 1..Len(list) : list[i]["job_id"][2] = job_id

\* C7: two stored results whose own timestamps are the instants T and T+1
\* are listed, by a list call with limit >= 2, the T+1 one before the T one,
\* whichever was saved first.
C7_ListedByOwnTimestamp ==
  \A a \in DOMAIN resStore, b \in DOMAIN resStore :
    ( /\ StoredTimestamp(a).kind = "iso"
      /\ StoredTimestamp(b).kind = "iso"
      /\ StoredTimestamp(b).sec = StoredTimestamp(a).sec + 1 )
      => LET listed == RedisListResults(resStore, resIndex,
                                        Cardinality(DOMAIN resIndex))
         IN PosIn(listed, b) < PosIn(listed, a)

ReadBack == GetResultOf(resStore, resp.arg.job_id, clock)

\* C8 as stated: reading a result back right after saving it yields the
\* saved argument, equal in every field.
C8_ReadBackEqualsArgument ==
  resp.op = "save_result" => ReadBack = Some(resp.arg)

\* C8 amended: the read-back equals the Result that save returned; it equals
\* the argument in every field but the timestamp, and in the timestamp too
\* unless the argument's timestamp is empty, which save replaces by its
\* time of saving.
C8_ReadBackEqualsSaved ==
  resp.op = "save_result"
    => /\ ReadBack = Some(resp.out)
       /\ \A f \in DOMAIN resp.arg \ {"timestamp"} : ReadBack[1][f] = resp.arg[f]
       /\ ReadBack[1].timestamp =
            IF resp.arg.timestamp = EmptyTs THEN IsoOf(clock)
            ELSE resp.arg.timestamp

\* A result saved with an empty timestamp, read back stamped, over an older
\* record of the same job id.
C8_Witness ==
  /\ resp.op = "save_result"
  /\ resp.arg.timestamp = EmptyTs
  /\ ReadBack # NoneV
  /\ ReadBack[1].timestamp = IsoOf(clock)
  /\ ReadBack[1].agent = Some(QABOT) /\ ReadBack[1].workflow_id = NoneV
  /\ clock > 1

TopOf(idx, n) ==
  LET all == ZRevAll(idx, DOMAIN idx, FALSE)
  IN SubSeq(all, 1, IF n < Len(all) THEN n ELSE Len(all))

\* C9: a listing returns exactly the records that exist among the first
\* `limit' entries of the time index, in index order.
C9_ListIsTopLimit ==
  resp.op = "list_results"
    => LET raw == FetchExisting(resStore, TopOf(resIndex, resp.limit))
       IN resp.out = [i \in 1..Len(raw) |-> ParseResult(raw[i], clock)]

\* C10: registering a name whose normalized form equals that of a registered
\* agent fails with Conflict and leaves the registry's records unchanged.
C10_DuplicateRejected ==
  [][(/\ resp'.op \in {"create_agent", "register_agent"}
      /\ \E k \in DOMAIN agStore : NormalizeName(k) = NormalizeName(resp'.name))
       => (resp'.error # NoneV /\ agStore' = agStore)]_vars

DefaultNames == {DefaultAgents[i].name : i \in 1..Len(DefaultAgents)}

\* C11: right after create_agent, get_agent of the name returns a record with
\* task_count 0 and a created_at, whatever the caller passed in these fields.
C11_CreatedCountZeroStamped ==
  resp.op = "create_agent"
    => LET got == GetAgentOf(agStore, resp.name)
       IN /\ got # NoneV
          /\ got[1].name = resp.name
          /\ got[1].task_count = 0
          /\ got[1].created_at # NoneV

\* An agent posted with task_count 5 and a stamp of its own, read back.
C11_Witness ==
  /\ resp.op = "create_agent"
  /\ resp.request.task_count = 5 /\ resp.request.created_at = Some(IsoOf(0))
  /\ GetAgentOf(agStore, resp.name)[1].task_count = 0
  /\ GetAgentOf(agStore, resp.name)[1].created_at = Some(IsoOf(clock))
  /\ clock > 1

\* C12: after create_default_agents every default name has its one record;
\* a call changes no record that existed before it, and a call made when
\* every default exists (any second call, whatever time has passed) creates
\* nothing and changes no agent record and no index entry.
C12_DefaultsIdempotent ==
  [][resp'.op = "create_default_agents"
       => /\ DefaultNames \subseteq DOMAIN agStore'
          /\ \A k \in DOMAIN agStore : agStore'[k] = agStore[k]
          /\ DefaultNames \subseteq DOMAIN agStore
               => (resp'.created = <<>> /\ agStore' = agStore /\ agIndex' = agIndex)]_vars

\* A call that created nothing and kept a default agent's count and stamp.
C12_Witness ==
  /\ resp.op = "create_default_agents" /\ resp.created = <<>>
  /\ QABOT \in DOMAIN agStore /\ agStore[QABOT].task_count > 0
  /\ agStore[QABOT].created_at # Some(IsoOf(clock))

ValidPriorities == {"low", "normal", "high"}
PriorityQueue == [low |-> "queue_low", normal |-> "queue", high |-> "queue_high"]
QueuedIn(qs) == {e \in (DOMAIN qs) \X (1..MaxJobs) : e[2] <= Len(qs[e[1]])}
Queued == QueuedIn(queues)
QueuedNext == QueuedIn(queues')
OthersKept(q) ==
  \A o \in DOMAIN queues' \ {q} : o \in DOMAIN queues /\ queues'[o] = queues[o]

\* C13: a dispatch with priority low, normal or high pushes exactly one
\* descriptor, the one of this job, on queue_low, queue or queue_high
\* respectively and leaves every other list as it was; so N high dispatches
\* put N descriptors on queue_high and none elsewhere.
C13_PushedOnPriorityQueue ==
  [][(resp'.op = "queue_task" /\ resp'.request.priority \in ValidPriorities)
       => LET q == PriorityQueue[resp'.request.priority]
          IN /\ resp'.queue = q
             /\ Len(queues'[q]) = Len(queues[q]) + 1
             /\ Tail(queues'[q]) = queues[q]
             /\ Head(queues'[q]).job_id = Some(resp'.job_id)
             /\ Head(queues'[q]).priority = resp'.request.priority
             /\ OthersKept(q)]_vars

\* Every dispatch so far was high: all of them are on queue_high.
C13_Witness ==
  /\ nextJob = QueueJobs + 1
  /\ Len(queues["queue_high"]) = QueueJobs
  /\ queues["queue"] = <<>> /\ queues["queue_low"] = <<>>
  /\ \A i \in 1..QueueJobs : queues["queue_high"][i].priority = "high"

\* C14: a dispatch with a priority other than low, normal, high is refused
\* and pushes nothing, so only the lists queue, queue_high and queue_low
\* ever hold a descriptor.
C14_OnlyThreeQueues ==
  /\ \A q \in DOMAIN queues : queues[q] # <<>> => q \in QueueNames
  /\ resp.op = "queue_task"
       => (resp.request.priority \in ValidPriorities \/ resp.status # "queued")

\* C19: an automatic dispatch on an empty registry is queued: it leaves the
\* four defaults registered, names an agent that exists, and pushes exactly
\* one descriptor, assigned to that agent.
C19_BootstrapOnEmptyRegistry ==
  [][(resp'.op = "queue_task" /\ resp'.request.agent_name = NoneV /\ agStore = <<>>)
       => /\ resp'.status = "queued"
          /\ DefaultNames \subseteq DOMAIN agStore'
          /\ resp'.agent \in DOMAIN agStore'
          /\ Cardinality(QueuedNext) = Cardinality(Queued) + 1
          /\ \E q \in DOMAIN queues' :
               /\ Len(queues'[q]) = (IF q \in DOMAIN queues THEN Len(queues[q]) ELSE 0) + 1
               /\ Head(queues'[q]).job_id = Some(resp'.job_id)
               /\ Head(queues'[q]).agent_name = Some(resp'.agent)]_vars

\* The defaults created by a dispatch, over a stale index entry.
C19_Witness ==
  /\ resp.op = "queue_task" /\ resp.request.agent_name = NoneV
  /\ resp.agent = GENERAL
  /\ DOMAIN agStore = DefaultNames
  /\ agStore[GENERAL].task_count = 1 /\ agStore[QABOT].task_count = 0
  /\ agStore[QABOT].created_at = Some(IsoOf(clock)) /\ clock > 1
  /\ nextJob = 2

\* C20: a dispatch to an agent that has a record raises its task_count by
\* exactly 1 (to 1 when the dispatch itself created the record), changes no
\* other agent's count, and pushes exactly one descriptor.
C20_CountPerDispatch ==
  [][resp'.op = "queue_task"
       => LET a == resp'.agent
          IN /\ a \in DOMAIN agStore
                  => agStore'[a].task_count = agStore[a].task_count + 1
             /\ (a \notin DOMAIN agStore /\ a \in DOMAIN agStore')
                  => agStore'[a].task_count = 1
             /\ \A b \in DOMAIN agStore \ {a} :
                  agStore'[b].task_count = agStore[b].task_count
             /\ Cardinality(QueuedNext) = Cardinality(Queued) + 1]_vars

\* N dispatches to one agent: its count is N and N descriptors name it.
C20_Witness ==
  /\ resp.op = "queue_task" /\ resp.agent = QABOT
  /\ QABOT \in DOMAIN agStore /\ agStore[QABOT].task_count = QueueJobs
  /\ Cardinality({e \in Queued : queues[e[1]][e[2]].agent_name = Some(QABOT)}) = QueueJobs

\* A dispatch step that resolved its agent by the keyword heuristic.
AutoDispatch ==
  /\ resp'.op = "queue_task" /\ nextJob' = nextJob + 1
  /\ resp'.request.agent_name = NoneV

\* The listed agents' names that carry a role.
RoleNames(agents, role) ==
  {agents[i].name : i \in {j \in 1..Len(agents) : agents[j].role = role}}

DeveloperKeywords == {"code", "develop", "implement", "create"}
FourRows == TaskRoleRows \o << [keywords |-> DeveloperKeywords, role |-> "Developer"] >>
MatchingRows(text) == {i \in 1..Len(FourRows) : FourRows[i].keywords \cap text # {}}

\* The answers a four-row, first-match table allows for a text.
FirstRowAgents(agents, text) ==
  IF MatchingRows(text) = {} THEN {GENERAL}
  ELSE LET first == CHOOSE i \in MatchingRows(text) : \A j \in MatchingRows(text) : i <= j
           names == RoleNames(agents, FourRows[first].role)
       IN IF names = {} THEN {GENERAL} ELSE names

\* C16: automatic assignment answers by the earliest of the rows QA, Debug,
\* Analyze, Developer that has a keyword in the text: an agent with that
\* row's role, or the general assistant when no agent has it or no row
\* matches; later rows are not tried.
C16_FirstRowWins ==
  [][AutoDispatch
       => resp'.agent \in FirstRowAgents(ListAgents(agStore, agIndex),
                                         resp'.request.job)]_vars

\* C17: a text with a keyword of code/develop/implement/create and none of
\* the QA, Debug and Analyze rows is assigned to an agent with role
\* Developer whenever one is registered.
C17_DeveloperRow ==
  [][(/\ AutoDispatch
      /\ resp'.request.job \cap DeveloperKeywords # {}
      /\ \A i \in 1..Len(TaskRoleRows) :
           TaskRoleRows[i].keywords \cap resp'.request.job = {}
      /\ \E n \in DOMAIN agStore : agStore[n].role = "Developer")
       => /\ resp'.agent \in DOMAIN agStore
          /\ agStore[resp'.agent].role = "Developer"]_vars

\* The index the same agents have when they are registered at other times,
\* in any order: every assignment of creation instants to the indexed names.
OtherOrders == [DOMAIN agIndex -> 1..MaxClock]
CallerNames == {a.name : a \in DispatchAgents}

\* C18: automatic assignment does not depend on the order in which the
\* agents were registered: over a registry of caller-registered agents, the
\* agent a dispatch resolves is the one it resolves for the same agents
\* (names and roles) registered in any other order.
C18_OrderIndependent ==
  [][(AutoDispatch /\ agStore # <<>> /\ DOMAIN agStore \subseteq CallerNames)
       => \A idx \in OtherOrders :
            AssignByRows(ListAgents(agStore, idx), resp'.request.job, 1)
              = resp'.agent]_vars

\* A dispatch step of either application that resolved its agent by the
\* keyword heuristic and queued the job.
AutoAssigned ==
  /\ resp'.op \in {"queue_task", "create_task"} /\ nextJob' = nextJob + 1
  /\ resp'.request.agent_name = NoneV /\ resp'.status = "queued"

DebugNames == {agStore[k].name : k \in {x \in DOMAIN agStore : agStore[x].role = "Debug"}}

\* C15: a job whose text has "debug" and no keyword of another row is
\* assigned to an agent with role Debug when one is registered, and to the
\* general assistant otherwise.
C15_DebugTextToDebugRole ==
  [][(AutoAssigned /\ resp'.request.job = {"debug", "bug"})
       => IF DebugNames # {} THEN resp'.agent \in DebugNames
          ELSE resp'.agent = GENERAL]_vars

\* The descriptors on the lists that carry job id j.
QueuedJob(j) == {e \in Queued : queues[e[1]][e[2]].job_id = Some(j)}
AllIdle == \A p \in Readers : rd[p].pc = "idle"
Incrementing == {p \in Readers : rd[p].pc = "increment"}

\* C21: with N dispatches to one agent on several instances, the agent's
\* task_count never exceeds the number of dispatches whose SET was issued
\* (so never N), each finished dispatch has its one descriptor on a list, and
\* when all have finished all N descriptors are enqueued; a final count
\* below N is reachable (the witness).
C21_CountAtMostDispatches ==
  /\ \A a \in DOMAIN agStore :
       agStore[a].task_count <= (nextJob - 1) - Cardinality(Incrementing)
  /\ \A j \in 1..(nextJob - 1) :
       Cardinality(QueuedJob(j)) = (IF \E p \in Readers : rd[p].pc # "idle" /\ rd[p].job_id = j
                                    THEN 0 ELSE 1)
  /\ AllIdle => Cardinality(Queued) = nextJob - 1

\* Two dispatches finished, both descriptors enqueued, one increment lost.
C21_Witness ==
  /\ AllIdle /\ nextJob - 1 = ConcJobs
  /\ Cardinality({e \in Queued : queues[e[1]][e[2]].agent_name = Some(QABOT)}) = ConcJobs
  /\ agStore[QABOT].task_count < ConcJobs

\* C22: once delete(name) has removed the record, get(name) finds nothing
\* until the agent is registered again: no step other than a registration
\* takes the registry from "get(name) is not found" to "get(name) is found",
\* whatever dispatches are in progress.
C22_DeletedStaysDeleted ==
  [][(GetAgentOf(agStore, QABOT) = NoneV /\ resp'.op # "create_agent")
       => GetAgentOf(agStore', QABOT) = NoneV]_vars

\* The descriptors on "queue" that belong to workflow w, newest first.
OfWorkflow(q, w) == SelectSeq(q, LAMBDA d : d.workflow_id = Some(w))

\* C23: when the enqueue of step k fails during workflow creation, the
\* descriptors of steps 1..k-1 stay on the queue in front of what was there,
\* and no workflow record and no workflows_index entry exists for that
\* workflow_id.
C23_NoRollback ==
  [][(resp'.op = "orchestrate" /\ resp'.status = "error")
       => LET w == resp'.workflow_id
              k == resp'.failed_step
          IN /\ Len(queues'["queue"]) = Len(queues["queue"]) + k - 1
             /\ SubSeq(queues'["queue"], k, Len(queues'["queue"])) = queues["queue"]
             /\ Len(OfWorkflow(queues'["queue"], w)) = k - 1
             /\ \A i \in 1..(k - 1) :
                  queues'["queue"][i].job_id = Some(nextJob + k - 1 - i)
             /\ w \notin DOMAIN wfStore' /\ w \notin DOMAIN wfIndex'
             /\ wfStore' = wfStore /\ wfIndex' = wfIndex]_vars

\* The third of four enqueues failed: two descriptors of the workflow are
\* queued and the workflow has no record.
C23_Witness ==
  /\ resp.op = "orchestrate" /\ resp.status = "error" /\ resp.failed_step = 3
  /\ Len(OfWorkflow(queues["queue"], resp.workflow_id)) = 2
  /\ resp.workflow_id \notin DOMAIN wfStore
  /\ resp.workflow_id \notin DOMAIN wfIndex

\* Smaller windows, to see a result fall outside.
Windows == {1, 2, ResultsWindow}

\* The ids among the n most recent entries of results_index (score, then id,
\* descending) whose record exists and belongs to workflow w.
InWindow(n, w) ==
  {j \in DOMAIN resIndex \cap DOMAIN resStore :
     /\ Cardinality({k \in DOMAIN resIndex :
                       resIndex[k] > resIndex[j] \/ (resIndex[k] = resIndex[j] /\ k > j)}) < n
     /\ JsonGet(resStore[j], "workflow_id") = Some(w)}

\* C24: list_by_workflow(w) returns exactly the results of workflow w among
\* the most recent entries of results_index (200 of them) whose records
\* exist, each once; the same holds of the listing for any other window
\* size, so a result of w outside the window is not returned.
C24_ExactlyWindowOfWorkflow ==
  /\ \A w \in WindowWorkflows, n \in Windows :
       LET out == ListByWorkflowIn(resStore, resIndex, n, w)
       IN /\ {out[i] : i \in 1..Len(out)} = {resStore[j] : j \in InWindow(n, w)}
          /\ Len(out) = Cardinality(InWindow(n, w))
  /\ resp.op = "results_by_workflow"
       => /\ {resp.out[i].job_id : i \in 1..Len(resp.out)}
               = InWindow(ResultsWindow, resp.workflow_id)
          /\ \A i \in 1..Len(resp.out) :
               resp.out[i].workflow_id = Some(resp.workflow_id)

\* A listing has answered; with a window of two, a result of the workflow
\* whose record exists lies outside the window and is not listed.
C24_Witness ==
  /\ resp.op = "results_by_workflow" /\ Len(resp.out) = 3
  /\ \E j \in DOMAIN resStore :
       LET out == ListByWorkflowIn(resStore, resIndex, 2, resp.workflow_id)
       IN /\ JsonGet(resStore[j], "workflow_id") = Some(resp.workflow_id)
          /\ Len(out) = 2
          /\ \A i \in 1..Len(out) : out[i] # resStore[j]

\* Worker processes with a job in hand, and the job they hold.
Holding == {p \in Readers : rd[p].pc \in {"work", "chain"}}
HoldingNext == {p \in Readers : rd'[p].pc \in {"work", "chain"}}
IsSuffix(q, r) == Len(r) >= Len(q) /\ SubSeq(r, Len(r) - Len(q) + 1, Len(r)) = q

\* C25: each list is first in, first out: a push puts descriptors in front
\* of what the list holds and keeps the rest in order, and the only removal
\* is of the descriptor pushed longest ago, which is the one the worker
\* gets, whichever instance pushed it.
C25_FirstInFirstOut ==
  [][\A n \in DOMAIN queues :
       LET q == queues[n]
           r == queues'[n]
       IN \/ IsSuffix(q, r)
          \/ /\ q # <<>> /\ r = SubSeq(q, 1, Len(q) - 1)
             /\ \E p \in HoldingNext \ Holding : rd'[p].job = q[Len(q)]]_vars

\* The job pushed first (job 2, by the instance that started second) is with
\* a worker while the job pushed after it still waits.
C25_Witness ==
  /\ \E p \in Holding : rd[p].pc = "work" /\ rd[p].job.job_id = Some(2)
  /\ QueuedJob(1) # {}

\* Where a dispatched job id is: drawn and not yet pushed, on a list, or
\* with a worker.
Unpushed(j) == \E p \in Readers : rd[p].pc \in {"increment", "push"} /\ rd[p].job_id = j
HeldBy(j) == {p \in Holding : rd[p].job.job_id = Some(j)}
QueuedJobNext(j) == {e \in QueuedNext : queues'[e[1]][e[2]].job_id = Some(j)}

\* C26: a descriptor is on a list or with one worker, never both and never
\* twice, and once it has left its list it is on no list again, also after
\* the worker that held it died before writing a result.
C26_AtMostOnce ==
  /\ [](\A j \in 1..(nextJob - 1) :
          Cardinality(QueuedJob(j)) + Cardinality(HeldBy(j)) <= 1)
  /\ [][\A j \in 1..(nextJob - 1) :
          (~Unpushed(j) /\ QueuedJob(j) = {}) => QueuedJobNext(j) = {}]_vars

\* A worker died with job 1 in hand: the job is on no list, with no worker,
\* and has no result.
C26_Witness ==
  /\ resp.op = "crash" /\ resp.job.job_id = Some(1)
  /\ QueuedJob(1) = {} /\ HeldBy(1) = {} /\ 1 \notin DOMAIN resStore

StatusAnswered == resp'.op = "get_workflow_status" /\ ~resp'.error

\* C28 (as stated): a status read writes the workflow record only when the
\* workflow status becomes completed; a read that does not complete the
\* workflow leaves the store unchanged.
C28_WritesOnlyOnCompletion ==
  [][(StatusAnswered /\ wfStore' # wfStore)
       => LET w == resp'.workflow_id
          IN wfStore[w].status # "completed" /\ wfStore'[w].status = "completed"]_vars

\* C28 (amended): a status read writes the workflow record back exactly when
\* it changed the document: a step became processing or completed, or the
\* workflow became completed. It writes the document it returns, under the
\* workflow's key only; a read that changes nothing leaves the store as it
\* was.
C28_WritesIffChanged ==
  [][StatusAnswered
       => LET w == resp'.workflow_id
              d == resp'.workflow[1]
          IN /\ resp'.wrote <=> d # wfStore[w]
             /\ wfStore' = (IF d # wfStore[w] THEN Put(wfStore, w, d) ELSE wfStore)
             /\ d.status = "completed" /\ wfStore[w].status # "completed"
                  => wfStore'[w].status = "completed"]_vars

\* A read wrote the record back while the workflow is still running.
C28_Witness ==
  /\ resp.op = "get_workflow_status" /\ ~resp.error /\ resp.wrote
  /\ wfStore[resp.workflow_id].status = "running"
  /\ \E i \in 1..Len(wfStore[resp.workflow_id].steps) :
       wfStore[resp.workflow_id].steps[i].status = "processing"

\* C29: a stored step is completed only if a result for its job_id was
\* there when a status read looked (it becomes completed in a status read
\* that finds result:<job_id>); a step whose job has never had a result is
\* queued or processing and its workflow is running.
C29_CompletedOnlyWithResult ==
  /\ [](\A w \in DOMAIN wfStore : \A i \in 1..Len(wfStore[w].steps) :
          LET s == wfStore[w].steps[i]
          IN /\ s.status = "completed" => s.job_id \in DOMAIN resIndex
             /\ s.job_id \notin DOMAIN resIndex
                  => s.status \in {"queued", "processing"} /\ wfStore[w].status = "running")
  /\ [][\A w \in DOMAIN wfStore : \A i \in 1..Len(wfStore[w].steps) :
          (wfStore[w].steps[i].status # "completed"
             /\ wfStore'[w].steps[i].status = "completed")
            => /\ resp'.op = "get_workflow_status" /\ resp'.workflow_id = w
               /\ wfStore[w].steps[i].job_id \in DOMAIN resStore]_vars

\* After a status read one step is completed from its result while another
\* step, whose job never had a result, is processing and the workflow runs.
C29_Witness ==
  /\ resp.op = "get_workflow_status" /\ ~resp.error
  /\ LET d == wfStore[resp.workflow_id]
     IN /\ d.status = "running"
        /\ \E i, k \in 1..Len(d.steps) :
             /\ d.steps[i].status = "completed" /\ d.steps[i].job_id \in DOMAIN resIndex
             /\ d.steps[k].status = "processing" /\ d.steps[k].job_id \notin DOMAIN resIndex

\* C30: the agent the dispatcher's automatic assignment answers for a text
\* on a registry is the specialist workflow creation chooses for the same
\* text on the same registry.
C30_SameHeuristic ==
  [][AutoDispatch => resp'.agent = AutoAssignAgentSync(resp'.request.job)]_vars

\* C31: a listing of workflows returns at most `limit' workflows, every one
\* of them in exactly one of active (status running) and completed (status
\* completed), so total_workflows is the sum of the two lengths.
C31_AtMostLimitPartitioned ==
  resp.op = "list_workflows"
    => /\ resp.total_workflows <= resp.limit
       /\ resp.total_workflows = Len(resp.active) + Len(resp.completed)
       /\ \A i \in 1..Len(resp.active) : resp.active[i].status = "running"
       /\ \A i \in 1..Len(resp.completed) : resp.completed[i].status = "completed"

C33_StatusReadIdempotent ==
  /\ [][(StatusAnswered /\ resp.op = "get_workflow_status"
           /\ resp.workflow_id = resp'.workflow_id)
          => /\ resp'.workflow = resp.workflow
             /\ ~resp'.wrote
             /\ wfStore' = wfStore]_vars
  /\ [](\A w \in DOMAIN wfStore : \A t \in clock..MaxClock :
          LET first == DeriveStatus(wfStore[w], resStore, clock)
          IN DeriveStatus(first.doc, resStore, t) = [doc |-> first.doc, changed |-> FALSE])

\* A second read of a workflow that an earlier read completed: it wrote
\* nothing and answers the stored, completed document with a step still
\* carrying its result.
C33_Witness ==
  /\ resp.op = "get_workflow_status" /\ ~resp.error /\ ~resp.wrote
  /\ resp.workflow = Some(wfStore[resp.workflow_id])
  /\ wfStore[resp.workflow_id].status = "completed"
  /\ \E i \in 1..Len(wfStore[resp.workflow_id].steps) :
       wfStore[resp.workflow_id].steps[i].job_id \in DOMAIN resStore

\* C34: a dispatch with an explicit agent name that has no agent record
\* raises no error: it answers queued for that name, pushes exactly one
\* descriptor, carrying that agent_name, and leaves the agent records and
\* the agent index as they were.
C34_UnknownAgentEnqueued ==
  [][(resp'.op = "queue_task" /\ resp'.request.agent_name # NoneV
        /\ resp'.request.agent_name[1] \notin DOMAIN agStore)
       => LET q == resp'.queue
          IN /\ resp'.status = "queued"
             /\ resp'.agent = resp'.request.agent_name[1]
             /\ Tail(queues'[q]) = (IF q \in DOMAIN queues THEN queues[q] ELSE <<>>)
             /\ Head(queues'[q]).job_id = Some(resp'.job_id)
             /\ Head(queues'[q]).agent_name = resp'.request.agent_name
             /\ OthersKept(q)
             /\ agStore' = agStore
             /\ agIndex' = agIndex]_vars

\* A descriptor for qa_bot is queued while no agent record exists at all.
C34_Witness ==
  /\ resp.op = "queue_task" /\ resp.status = "queued"
  /\ resp.request.agent_name = Some(QABOT)
  /\ agStore = <<>>
  /\ \E e \in Queued : /\ queues[e[1]][e[2]].agent_name = Some(QABOT)
                       /\ queues[e[1]][e[2]].job_id = Some(resp.job_id)

\* C35: the result the worker writes for a job names, in its agent field,
\* the agent_name of the descriptor that was enqueued for that job_id.
C35_ResultNamesDescriptorAgent ==
  [][resp'.op = "worker"
       => \A p \in Readers :
            (rd[p].pc = "work" /\ rd'[p].pc = "chain"
               /\ rd[p].job.job_id # NoneV /\ rd[p].job.agent_name # NoneV)
              => JsonGet(resStore'[rd[p].job.job_id[1]], "agent")
                   = rd[p].job.agent_name]_vars

\* A descriptor of job j waits on queue_high or queue_low.
WaitsHighLow(j) ==
  \E q \in {"queue_high", "queue_low"} : \E i \in 1..Len(queues[q]) :
    queues[q][i].job_id = Some(j)

\* C36: with the worker loop running on, every job dispatched with priority
\* high or low is eventually popped and answered with a result.
C36_HighLowAnswered ==
  \A j \in 1..FairJobs : WaitsHighLow(j) ~> (j \in DOMAIN resStore)

\* The role the worker takes for a descriptor (role, default Analyze).
RoleOf(job) == IF job.role # NoneV THEN job.role[1] ELSE "Analyze"

\* C37: the follow-up chaining terminates. A worker iteration pops one job
\* and pushes at most one follow-up: a QA review after an Analyze result, an
\* Admin summary after a QA result, nothing after an Admin result, so a
\* popped job causes at most two further jobs; and with the worker loop
\* running on, once dispatching has stopped, "queue" becomes empty and
\* stays empty.
C37_ChainTerminates ==
  /\ [][resp'.op = "worker"
          => LET q == queues["queue"]
                 job == q[Len(q)]
                 rest == SubSeq(q, 1, Len(q) - 1)
                 after == queues'["queue"]
             IN /\ RoleOf(job) = "Admin" => after = rest
                /\ RoleOf(job) \in {"Analyze", "QA"}
                     => /\ Tail(after) = rest
                        /\ RoleOf(Head(after))
                             = (IF RoleOf(job) = "Analyze" THEN "QA" ELSE "Admin")
                        /\ Head(after).parent_job_id = Some(resp'.job_id)
                /\ RoleOf(job) \in {"Analyze", "QA", "Admin"}
                /\ OthersKept("queue")]_vars
  /\ <>[](queues["queue"] = <<>>)

\* The worker answered an Admin summary, the end of a chain that began with
\* a dispatched job, and "queue" is empty.
C37_Witness ==
  /\ resp.op = "worker" /\ queues["queue"] = <<>>
  /\ \E j \in 1..FairJobs : j \in DOMAIN resStore
  /\ \E k \in DOMAIN resStore :
       /\ JsonGet(resStore[k], "role") = Some("Admin")
       /\ JsonGet(resStore[k], "agent") = Some(<<"admin", "_", "bot">>)

====
